---- MODULE Spec2Model ----
(***************************************************************************)
(* Runpod AI SDK provider: the job client of the image, video,             *)
(* transcription and speech models (submit, poll, extract, download).      *)
(*                                                                         *)
(* A JavaScript object is a function with a string domain; a key that is   *)
(* absent from the domain is `undefined`.  One doGenerate call is modelled *)
(* as a state machine whose steps are the synchronous stretches of code    *)
(* between two awaits; the remote service, the timer and the caller's      *)
(* AbortController are the environment.                                    *)
(***************************************************************************)
EXTENDS Integers, Sequences, FiniteSets, TLC

VARIABLES
    model,        \* the model instance: modality, modelId, config.baseURL
    options,      \* the call options handed to doGenerate
    pc,           \* where the call is suspended
    aborted,      \* abortSignal.aborted
    attempt,      \* loop variable of pollForCompletion
    maxAttempts,  \* pollForCompletion's maxAttempts once the loop is entered
    pollInterval, \* pollForCompletion's pollInterval once the loop is entered
    warnings,     \* the warnings array of the call
    submitCount,  \* submission POSTs handed to fetch
    statusCount,  \* status GETs handed to fetch
    downloadCount,\* binary GETs handed to fetch
    waitCount,    \* setTimeout waits started
    lastRequest,  \* the request most recently handed to fetch
    lastResponse, \* the JSON response most recently delivered to the call
    jobId,        \* the job id pollForCompletion was called with
    pollEntered,  \* history: pollForCompletion has been called
    terminalSeen, \* history: some status response carried COMPLETED or
                  \* FAILED
    outcome,      \* how the call ended
    calls,        \* concurrent calls on one instance: the locals of each
    jobs,         \* concurrent calls: the jobs of the remote service
    errorBody,    \* the parsed body of a non-2xx response, given to
                  \* extractErrorMessage
    downloaded    \* the body of the answer to the binary GET of the call

\* the variables of concurrent calls
cvars == <<calls, jobs>>

\* the variables of one call, the model instance apart
svars == <<options, pc, aborted, attempt, maxAttempts, pollInterval,
           warnings, submitCount, statusCount, downloadCount, waitCount,
           lastRequest, lastResponse, jobId, pollEntered, terminalSeen,
           outcome, errorBody, downloaded>>

vars == <<model, options, pc, aborted, attempt, maxAttempts, pollInterval,
          warnings, submitCount, statusCount, downloadCount, waitCount,
          lastRequest, lastResponse, jobId, pollEntered, terminalSeen,
          outcome, calls, jobs, errorBody, downloaded>>

-----------------------------------------------------------------------------
(* Bounds of the exploration *)

MaxPollAttempts == 2   \* largest explicit providerOptions.runpod.maxPollAttempts
MaxN == 2              \* largest requested count n

-----------------------------------------------------------------------------
(* JavaScript values *)

Has(o, k) == k \in DOMAIN o

\* o?.k ?? d
Get(o, k, d) == IF Has(o, k) THEN o[k] ELSE d

\* { ...a, ...b }
Spread(a, b) ==
    [k \in DOMAIN a \cup DOMAIN b |-> IF k \in DOMAIN b THEN b[k] ELSE a[k]]

EmptyObject == [k \in {} |-> 0]

\* One JSON field value with its typeof.
JUndefined == [t |-> "undefined", s |-> ""]
JString(s) == [t |-> "string", s |-> s]
JNumber(s) == [t |-> "number", s |-> s]
JArray(items) == [t |-> "array", items |-> items]

\* JavaScript truthiness of a field value.
Truthy(v) == \/ v.t = "string" /\ v.s # ""
             \/ v.t = "number" /\ v.s # "0"

-----------------------------------------------------------------------------
(* URLs are sequences of tokens, "/" being a token of its own. *)

EndsWith(u, suffix) ==
    /\ Len(u) >= Len(suffix)
    /\ SubSeq(u, Len(u) - Len(suffix) + 1, Len(u)) = suffix

\* url?.replace(/\/$/, '')
withoutTrailingSlash(u) ==
    IF Len(u) > 0 /\ u[Len(u)] = "/" THEN SubSeq(u, 1, Len(u) - 1) ELSE u

\* A mutation of getRunpodRunUrl: the suffix is always appended.
getRunpodRunUrlAlwaysAppend(baseURL) ==
    withoutTrailingSlash(baseURL) \o <<"/", "run">>

\* RunpodSpeechModel.getRunpodRunSyncUrl
getRunpodRunSyncUrl(baseURL) ==
    LET b == withoutTrailingSlash(baseURL) IN
    IF EndsWith(b, <<"/", "run">>) \/ EndsWith(b, <<"/", "runsync">>)
    THEN b
    ELSE b \o <<"/", "runsync">>

\* RunpodVideoModel.getRunpodRunUrl, RunpodTranscriptionModel.getRunpodRunUrl
getRunpodRunUrl(baseURL) ==
    LET b == withoutTrailingSlash(baseURL) IN
    IF EndsWith(b, <<"/", "run">>) \/ EndsWith(b, <<"/", "runsync">>)
    THEN b
    ELSE b \o <<"/", "run">>

-----------------------------------------------------------------------------
(* Model identifiers.  String.prototype.includes is a table over the       *)
(* substrings the code asks about.                                         *)

ImageModelIds ==
    { "qwen/qwen-image",
      "black-forest-labs/flux-1-schnell",
      "black-forest-labs/flux-1-kontext-dev",
      "pruna/p-image-t2i",
      "pruna/p-image-edit",
      "google/nano-banana-pro-edit",
      "qwen/qwen-image-edit-2511",
      "alibaba/wan-2.6" }

\* the id of the LoRA variant of Qwen Image Edit 2511
LoraModelIds == { "qwen/qwen-image-edit-2511-lora" }

VideoModelIds == { "alibaba/wan-2.6-t2v" }

TranscriptionModelIds == { "pruna/whisper-v3-large" }

SpeechModelIds == { "resembleai/chatterbox-turbo" }

Substrings(id) ==
    CASE id = "black-forest-labs/flux-1-schnell" ->
             {"flux", "black-forest-labs", "schnell"}
      [] id = "black-forest-labs/flux-1-kontext-dev" ->
             {"flux", "black-forest-labs", "kontext"}
      [] id = "pruna/p-image-t2i" -> {"pruna", "p-image"}
      [] id = "pruna/p-image-edit" -> {"pruna", "p-image", "edit"}
      [] id = "google/nano-banana-pro-edit" -> {"nano-banana-pro", "edit"}
      [] id = "qwen/qwen-image-edit-2511" -> {"qwen-image-edit-2511", "edit"}
      [] id = "qwen/qwen-image-edit-2511-lora" ->
             {"qwen-image-edit-2511", "edit", "lora"}
      [] id = "alibaba/wan-2.6" -> {"wan-2"}
      [] id = "pruna/flux-1-dev" -> {"pruna", "flux"}
      [] id = "pruna/flux-1-kontext-dev" -> {"pruna", "flux", "kontext"}
      [] id = "alibaba/wan-2.6-t2v" -> {"wan-2"}
      [] OTHER -> {}

\* modelId.includes(sub)
Includes(id, sub) == sub \in Substrings(id)

-----------------------------------------------------------------------------
(* Sizes are token sequences such as <<"1024", "x", "1024">>; the empty    *)
(* sequence is a size that was not given.                                  *)

\* s.replace(from, to): the first occurrence only
RECURSIVE ReplaceFirst(_, _, _)
ReplaceFirst(s, from, to) ==
    IF s = <<>> THEN <<>>
    ELSE IF Head(s) = from THEN <<to>> \o Tail(s)
    ELSE <<Head(s)>> \o ReplaceFirst(Tail(s), from, to)

SUPPORTED_ASPECT_RATIOS ==
    [r \in {"1:1", "4:3", "3:4"} |->
        CASE r = "1:1" -> <<"1328", "*", "1328">>
          [] r = "4:3" -> <<"1472", "*", "1140">>
          [] r = "3:4" -> <<"1140", "*", "1472">>]

SUPPORTED_SIZES ==
    { <<"1328", "*", "1328">>, <<"1472", "*", "1140">>, <<"1140", "*", "1472">>,
      <<"512", "*", "512">>, <<"768", "*", "768">>, <<"1024", "*", "1024">>,
      <<"1536", "*", "1536">>, <<"2048", "*", "2048">>, <<"4096", "*", "4096">>,
      <<"512", "*", "768">>, <<"768", "*", "512">>, <<"1024", "*", "768">>,
      <<"768", "*", "1024">> }

\* Array.from(SUPPORTED_SIZES): the sizes in the order of their insertion
SUPPORTED_SIZES_ORDER ==
    << <<"1328", "*", "1328">>, <<"1472", "*", "1140">>, <<"1140", "*", "1472">>,
       <<"512", "*", "512">>, <<"768", "*", "768">>, <<"1024", "*", "1024">>,
       <<"1536", "*", "1536">>, <<"2048", "*", "2048">>, <<"4096", "*", "4096">>,
       <<"512", "*", "768">>, <<"768", "*", "512">>, <<"1024", "*", "768">>,
       <<"768", "*", "1024">> >>

\* Object.keys(SUPPORTED_ASPECT_RATIOS)
SUPPORTED_ASPECT_RATIOS_ORDER == <<"1:1", "4:3", "3:4">>

\* the text of a token sequence
RECURSIVE Text(_)
Text(tokens) ==
    IF tokens = <<>> THEN "" ELSE Head(tokens) \o Text(Tail(tokens))

\* texts.join(', ')
RECURSIVE JoinComma(_)
JoinComma(texts) ==
    IF texts = <<>> THEN ""
    ELSE IF Len(texts) = 1 THEN texts[1]
    ELSE texts[1] \o ", " \o JoinComma(Tail(texts))

\* The first branch of the size decision in RunpodImageModel.doGenerate.
IsAspectPassthrough(id) ==
    Includes(id, "pruna") \/ Includes(id, "p-image")
        \/ Includes(id, "nano-banana-pro")

\* The argument RunpodImageModel.doGenerate rejects, or "" when it accepts.
InvalidArgument(id, o) ==
    LET size == Get(o, "size", <<>>)
        ar   == Get(o, "aspectRatio", "")
    IN  IF IsAspectPassthrough(id) THEN ""
        ELSE IF size # <<>>
             THEN IF ReplaceFirst(size, "x", "*") \in SUPPORTED_SIZES
                  THEN "" ELSE "size"
        ELSE IF ar # ""
             THEN IF ar \in DOMAIN SUPPORTED_ASPECT_RATIOS
                  THEN "" ELSE "aspectRatio"
        ELSE ""

\* A mutation of InvalidArgumentMessage: the message names the converted
\* candidate and lists the sizes in the format of the endpoint.
InvalidArgumentMessageRaw(id, o) ==
    IF InvalidArgument(id, o) = "size"
    THEN "Size " \o Text(ReplaceFirst(o["size"], "x", "*"))
            \o " is not supported by Runpod. Supported sizes: "
            \o JoinComma([i \in 1..Len(SUPPORTED_SIZES_ORDER) |->
                            Text(SUPPORTED_SIZES_ORDER[i])])
    ELSE "Aspect ratio " \o o["aspectRatio"]
            \o " is not supported by Runpod. Supported aspect ratios: "
            \o JoinComma(SUPPORTED_ASPECT_RATIOS_ORDER)

\* The message of the InvalidArgumentError RunpodImageModel.doGenerate
\* throws for a rejected call.
InvalidArgumentMessage(id, o) ==
    IF InvalidArgument(id, o) = "size"
    THEN "Size " \o Text(o["size"])
            \o " is not supported by Runpod. Supported sizes: "
            \o JoinComma([i \in 1..Len(SUPPORTED_SIZES_ORDER) |->
                            Text(ReplaceFirst(SUPPORTED_SIZES_ORDER[i], "*", "x"))])
    ELSE "Aspect ratio " \o o["aspectRatio"]
            \o " is not supported by Runpod. Supported aspect ratios: "
            \o JoinComma(SUPPORTED_ASPECT_RATIOS_ORDER)

\* A mutation of RunpodSize: the size is passed on as the caller wrote it.
RunpodSizeUnconverted(id, o) ==
    LET size == Get(o, "size", <<>>)
        ar   == Get(o, "aspectRatio", "")
    IN  IF IsAspectPassthrough(id) THEN <<IF ar # "" THEN ar ELSE "1:1">>
        ELSE IF size # <<>> THEN size
        ELSE IF ar # "" THEN SUPPORTED_ASPECT_RATIOS[ar]
        ELSE <<"1328", "*", "1328">>

\* runpodSize of RunpodImageModel.doGenerate, for an accepted call.
RunpodSize(id, o) ==
    LET size == Get(o, "size", <<>>)
        ar   == Get(o, "aspectRatio", "")
    IN  IF IsAspectPassthrough(id) THEN <<IF ar # "" THEN ar ELSE "1:1">>
        ELSE IF size # <<>> THEN ReplaceFirst(size, "x", "*")
        ELSE IF ar # "" THEN SUPPORTED_ASPECT_RATIOS[ar]
        ELSE <<"1328", "*", "1328">>

-----------------------------------------------------------------------------
(* Payload construction *)

\* NaN, the Number of a text that is no number; no width or height of a
\* size is below 0
NaN == -1

\* Number(token): the number a decimal token writes, NaN for another token
ToNumber(tok) ==
    IF \E n \in 0..4096 : ToString(n) = tok
    THEN CHOOSE n \in 0..4096 : ToString(n) = tok
    ELSE NaN

\* const [width, height] = runpodSize.split('*').map(Number): the members
\* width and height of the regular Flux payload; a height that is undefined
\* is no member of the submitted body
FluxDimensions(runpodSize) ==
    LET parts == SelectSeq(runpodSize, LAMBDA t : t # "*")
    IN  IF Len(parts) >= 2
        THEN [width |-> ToNumber(parts[1]), height |-> ToNumber(parts[2])]
        ELSE [width |-> ToNumber(parts[1])]

\* One reference file as convertFilesToRunpodFormat maps it.  A file is
\* [type |-> "url", url |-> s] or
\* [type |-> "file", data |-> s, isDataUrl |-> b, mediaType |-> m].
ConvertFile(file) ==
    IF file.type = "url" THEN file.url
    ELSE IF file.isDataUrl THEN file.data
    ELSE "data:" \o file.mediaType \o ";base64," \o file.data

\* RunpodImageModel.convertFilesToRunpodFormat; <<>> stands for undefined.
convertFilesToRunpodFormat(files) ==
    [i \in 1..Len(files) |-> ConvertFile(files[i])]

\* extractRunpodOptions / providerOptions.runpod
RunpodOptions(o) == Get(o, "runpod", EmptyObject)

PollingOptionKeys == {"maxPollAttempts", "pollIntervalMillis"}

\* Object.fromEntries(Object.entries(o).filter(([key]) => key is no polling key))
WithoutPollingOptions(ro) == [k \in DOMAIN ro \ PollingOptionKeys |-> ro[k]]

\* obj with obj[k] = v assigned
Assign(obj, k, v) == Spread(obj, [x \in {k} |-> v])

\* the seed rule of the Pruna payloads
PrunaSeed(payload, o, ro) ==
    IF Has(o, "seed") THEN Assign(payload, "seed", o["seed"])
    ELSE IF Has(ro, "seed") THEN Assign(payload, "seed", ro["seed"])
    ELSE payload

\* A mutation of WithImages: providerOptions.runpod.images wins over the
\* reference files.
WithImagesLegacyFirst(payload, images, ro) ==
    IF Has(ro, "images") THEN Assign(payload, "images", ro["images"])
    ELSE IF Len(images) > 0 THEN Assign(payload, "images", images)
    ELSE payload

\* A mutation of KontextImage: the image the spread of
\* providerOptions.runpod put in the payload is kept.
KontextImageLegacyFirst(payload, images) ==
    IF Has(payload, "image") THEN payload
    ELSE IF Len(images) > 0 THEN Assign(payload, "image", images[1])
    ELSE payload

\* the image rule of Flux Kontext, on the payload that already holds the
\* spread of providerOptions.runpod
KontextImage(payload, images) ==
    IF Len(images) > 0 THEN Assign(payload, "image", images[1]) ELSE payload

\* the images rule of the multi-reference families
WithImages(payload, images, ro) ==
    IF Len(images) > 0 THEN Assign(payload, "images", images)
    ELSE IF Has(ro, "images") THEN Assign(payload, "images", ro["images"])
    ELSE payload

\* the default payload with the singular image member and the plural
\* images member both filled from the standardized files
WithDefaultImagesBoth(payload, images) ==
    IF Len(images) = 0 THEN payload
    ELSE Assign(Assign(payload, "image", images[1]), "images", images)

\* the default payload: one standardized file is its image, two or more are
\* its images
WithDefaultImages(payload, images) ==
    IF Len(images) = 0 THEN payload
    ELSE IF Len(images) = 1 THEN Assign(payload, "image", images[1])
    ELSE Assign(payload, "images", images)

\* RunpodImageModel.buildInputPayload, with the arguments doGenerate gives it
buildImageInputPayload(id, o) ==
    LET prompt == Get(o, "prompt", "")
        runpodSize == RunpodSize(id, o)
        ro == RunpodOptions(o)
        images == convertFilesToRunpodFormat(Get(o, "files", <<>>))
        aspect == Get(ro, "aspect_ratio", Get(o, "aspectRatio", "1:1"))
    IN
    IF Includes(id, "flux") \/ Includes(id, "black-forest-labs") THEN
        IF Includes(id, "kontext") THEN
            KontextImage(
                Spread(
                    [prompt |-> prompt,
                     negative_prompt |-> Get(ro, "negative_prompt", ""),
                     seed |-> Get(o, "seed", -1),
                     num_inference_steps |-> 28,
                     guidance |-> 2,
                     size |-> runpodSize,
                     output_format |-> "png",
                     enable_safety_checker |->
                         Get(ro, "enable_safety_checker", TRUE)],
                    ro),
                images)
        ELSE
            Spread(
                Spread(
                    [prompt |-> prompt,
                     negative_prompt |-> Get(ro, "negative_prompt", ""),
                     seed |-> Get(o, "seed", -1),
                     num_inference_steps |->
                         IF Includes(id, "schnell") THEN 4 ELSE 28,
                     guidance |-> IF Includes(id, "schnell") THEN 7 ELSE 2,
                     image_format |-> "png"],
                    FluxDimensions(runpodSize)),
                ro)
    ELSE IF Includes(id, "pruna") \/ Includes(id, "p-image") THEN
        LET base == PrunaSeed(
                [prompt |-> prompt,
                 aspect_ratio |-> aspect,
                 disable_safety_checker |->
                     Get(ro, "disable_safety_checker", FALSE)],
                o, ro)
        IN  IF Includes(id, "edit") THEN WithImages(base, images, ro)
            ELSE IF aspect = "custom" THEN
                LET w == IF Has(ro, "width") /\ ro["width"] # 0
                         THEN Assign(base, "width", ro["width"]) ELSE base
                IN  IF Has(ro, "height") /\ ro["height"] # 0
                    THEN Assign(w, "height", ro["height"]) ELSE w
            ELSE base
    ELSE IF Includes(id, "nano-banana-pro") THEN
        WithImages(
            [prompt |-> prompt,
             aspect_ratio |-> aspect,
             resolution |-> Get(ro, "resolution", "1k"),
             output_format |-> Get(ro, "output_format", "jpeg"),
             enable_base64_output |-> Get(ro, "enable_base64_output", FALSE),
             enable_sync_mode |-> Get(ro, "enable_sync_mode", FALSE)],
            images, ro)
    ELSE IF Includes(id, "qwen-image-edit-2511") THEN
        WithImages(
            Spread(
                [prompt |-> prompt,
                 size |-> runpodSize,
                 seed |-> Get(o, "seed", -1),
                 output_format |-> Get(ro, "output_format", "jpeg"),
                 enable_base64_output |->
                     Get(ro, "enable_base64_output", FALSE),
                 enable_sync_mode |-> Get(ro, "enable_sync_mode", FALSE)],
                ro),
            images, ro)
    ELSE IF Includes(id, "wan-2") THEN
        Spread(
            [prompt |-> prompt,
             size |-> runpodSize,
             seed |-> Get(o, "seed", -1),
             enable_safety_checker |-> Get(ro, "enable_safety_checker", TRUE)],
            ro)
    ELSE
        LET p == Spread(
                [prompt |-> prompt,
                 negative_prompt |-> Get(ro, "negative_prompt", ""),
                 size |-> runpodSize,
                 seed |-> Get(o, "seed", -1),
                 enable_safety_checker |->
                     Get(ro, "enable_safety_checker", TRUE)],
                ro)
        IN  WithDefaultImages(p, images)

\* RunpodVideoModel.buildInputPayload
buildVideoInputPayload(o) ==
    LET p0 == WithoutPollingOptions(RunpodOptions(o))
        p1 == IF Get(o, "prompt", "") # ""
              THEN Assign(p0, "prompt", o["prompt"]) ELSE p0
        p2 == IF Has(o, "duration")
              THEN Assign(p1, "duration", o["duration"]) ELSE p1
        p3 == IF Has(o, "fps") THEN Assign(p2, "fps", o["fps"]) ELSE p2
        p4 == IF Has(o, "seed") THEN Assign(p3, "seed", o["seed"]) ELSE p3
        p5 == IF Get(o, "resolution", <<>>) # <<>>
              THEN Assign(p4, "size", ReplaceFirst(o["resolution"], "x", "*"))
              ELSE IF Get(o, "aspectRatio", "") # ""
              THEN Assign(p4, "aspect_ratio", o["aspectRatio"])
              ELSE p4
    IN  IF Has(o, "image")
        THEN Assign(p5, "image", ConvertFile(o["image"])) ELSE p5

\* The audio of a transcription call: a string, taken as base64 text
\* already, or a Uint8Array.  A text is the sequence of its characters.
StringAudio(chars) == [t |-> "string", chars |-> chars, bytes |-> <<>>]
BytesAudio(bytes) == [t |-> "bytes", chars |-> <<>>, bytes |-> bytes]

\* the base64 alphabet of Buffer.toString('base64') and btoa
Base64Alphabet ==
    <<"A", "B", "C", "D", "E", "F", "G", "H", "I", "J", "K", "L", "M",
      "N", "O", "P", "Q", "R", "S", "T", "U", "V", "W", "X", "Y", "Z",
      "a", "b", "c", "d", "e", "f", "g", "h", "i", "j", "k", "l", "m",
      "n", "o", "p", "q", "r", "s", "t", "u", "v", "w", "x", "y", "z",
      "0", "1", "2", "3", "4", "5", "6", "7", "8", "9", "+", "/">>

Base64Char(i) == Base64Alphabet[i + 1]

\* the four characters that encode a group of one, two or three bytes
EncodeGroup(g) ==
    LET b2 == IF Len(g) > 1 THEN g[2] ELSE 0
        b3 == IF Len(g) > 2 THEN g[3] ELSE 0
        n  == g[1] * 65536 + b2 * 256 + b3
    IN  << Base64Char(n \div 262144),
           Base64Char((n \div 4096) % 64),
           IF Len(g) > 1 THEN Base64Char((n \div 64) % 64) ELSE "=",
           IF Len(g) > 2 THEN Base64Char(n % 64) ELSE "=" >>

\* RunpodTranscriptionModel.uint8ArrayToBase64
RECURSIVE uint8ArrayToBase64(_)
uint8ArrayToBase64(data) ==
    IF data = <<>> THEN <<>>
    ELSE IF Len(data) <= 3 THEN EncodeGroup(data)
    ELSE EncodeGroup(SubSeq(data, 1, 3))
            \o uint8ArrayToBase64(SubSeq(data, 4, Len(data)))

\* RunpodTranscriptionModel.convertAudioToBase64
convertAudioToBase64(audio) ==
    IF audio.t = "string" THEN audio.chars
    ELSE uint8ArrayToBase64(audio.bytes)

\* a mutation of TranscriptionAudio: the converted audio is sent next to
\* the audio of providerOptions.runpod
TranscriptionAudioBoth(o, ro) ==
    LET base == [audio_base64 |->
                    convertAudioToBase64(Get(o, "audio", StringAudio(<<>>)))]
    IN  IF Has(ro, "audio") /\ ro["audio"].t = "string" /\ ro["audio"].s # ""
        THEN Assign(base, "audio", ro["audio"].s)
        ELSE base

\* the audio member of the input: providerOptions.runpod.audio when it is a
\* non-empty string, else the audio of the call as base64 text
TranscriptionAudio(o, ro) ==
    IF Has(ro, "audio") /\ ro["audio"].t = "string" /\ ro["audio"].s # ""
    THEN [audio |-> ro["audio"].s]
    ELSE [audio_base64 |->
             convertAudioToBase64(Get(o, "audio", StringAudio(<<>>)))]

\* the input object RunpodTranscriptionModel.doGenerate builds
buildTranscriptionInput(o) ==
    LET ro == RunpodOptions(o)
        p0 == TranscriptionAudio(o, ro)
        p1 == IF Get(ro, "prompt", "") # "" \/ Get(ro, "initial_prompt", "") # ""
              THEN Assign(p0, "initial_prompt",
                          Get(ro, "prompt", Get(ro, "initial_prompt", "")))
              ELSE p0
        p2 == IF Get(ro, "language", "") # ""
              THEN Assign(p1, "language", ro["language"]) ELSE p1
        p3 == IF Has(ro, "word_timestamps")
              THEN Assign(p2, "word_timestamps", ro["word_timestamps"]) ELSE p2
        p4 == IF Get(ro, "model", "") # ""
              THEN Assign(p3, "model", ro["model"]) ELSE p3
        p5 == IF Get(ro, "transcription", "") # ""
              THEN Assign(p4, "transcription", ro["transcription"]) ELSE p4
        p6 == IF Has(ro, "translate")
              THEN Assign(p5, "translate", ro["translate"]) ELSE p5
    IN  IF Has(ro, "enable_vad")
        THEN Assign(p6, "enable_vad", ro["enable_vad"]) ELSE p6

\* A text is a sequence of tokens, a line break being a token of its own.
LineBreaks == {"\n", "\r"}

RECURSIVE DropLineBreaks(_)
DropLineBreaks(text) ==
    IF text # <<>> /\ Head(text) \in LineBreaks
    THEN DropLineBreaks(Tail(text)) ELSE text

\* value.replace(/[\r\n]+/g, ' ')
RECURSIVE replaceNewlinesWithSpaces(_)
replaceNewlinesWithSpaces(text) ==
    IF text = <<>> THEN <<>>
    ELSE IF Head(text) \in LineBreaks
         THEN <<" ">> \o replaceNewlinesWithSpaces(DropLineBreaks(text))
    ELSE <<Head(text)>> \o replaceNewlinesWithSpaces(Tail(text))

\* voiceUrl of RunpodSpeechModel.doGenerate; "" stands for undefined
SpeechVoiceUrl(ro) == Get(ro, "voice_url", Get(ro, "voiceUrl", ""))

\* the input object RunpodSpeechModel.doGenerate builds
buildSpeechInput(o) ==
    LET p == [prompt |-> replaceNewlinesWithSpaces(Get(o, "text", <<>>))]
        voiceUrl == SpeechVoiceUrl(RunpodOptions(o))
    IN  IF voiceUrl # "" THEN Assign(p, "voice_url", voiceUrl)
        ELSE IF Get(o, "voice", "") # "" THEN Assign(p, "voice", o["voice"])
        ELSE p

-----------------------------------------------------------------------------
(* Responses of the remote service *)

OutKeys == {"video_url", "result", "url", "image_url", "text", "audio_url"}
KeyOrder == <<"video_url", "result", "url", "image_url", "text", "audio_url">>

NoFields == [k \in OutKeys |-> JUndefined]

\* The output member of a response, with its typeof.
NoOutput == [t |-> "undefined", s |-> "", f |-> NoFields]
BareString(s) == [t |-> "string", s |-> s, f |-> NoFields]
Obj(f) == [t |-> "object", s |-> "", f |-> Spread(NoFields, f)]

UrlX == "https://cdn/x.mp4"
UrlY == "https://cdn/y.mp4"

VideoFieldValues == {JUndefined, JString(UrlX), JString(UrlY), JNumber("7")}

VideoOutputs ==
    {NoOutput, BareString(""), BareString(UrlX), BareString(UrlY)}
    \cup {Obj(f) : f \in [{"video_url", "result", "url"} -> VideoFieldValues]}

ImageOutputs ==
    {NoOutput}
    \cup {Obj([result |-> r, image_url |-> i]) :
            r \in {JUndefined, JString(""), JString(UrlX)},
            i \in {JUndefined, JString(""), JString(UrlY)}}

\* a number member of a segment: absent or given
NoNumber == [t |-> "undefined", n |-> 0]
Number(n) == [t |-> "number", n |-> n]

\* the segments member of a transcription output: lists of segments with
\* and without their text, start and end
SegmentLists ==
    { <<>>,
      << [text |-> JString("hello"), start |-> Number(1), end |-> Number(3)] >>,
      << [text |-> JUndefined, start |-> NoNumber, end |-> NoNumber] >>,
      << [text |-> JString("hello"), start |-> Number(0), end |-> Number(2)],
         [text |-> JString(""), start |-> Number(2), end |-> NoNumber],
         [text |-> JUndefined, start |-> NoNumber, end |-> Number(5)] >> }

TranscriptionOutputs ==
    {NoOutput}
    \cup {Obj([text |-> t, result |-> r]) :
            t \in {JUndefined, JString(""), JString("hello")},
            r \in {JUndefined, JString("hi")}}
    \cup {Obj([text |-> JString("hello"), segments |-> segs]) :
            segs \in SegmentLists}
    \cup {Obj([segments |-> segs]) : segs \in SegmentLists}

Outputs(modality) ==
    CASE modality = "image" -> ImageOutputs
      [] modality = "video" -> VideoOutputs
      [] modality = "transcription" -> TranscriptionOutputs

ErrorFields == {JUndefined, JString(""), JString("GPU out of memory")}

NonTerminalStatuses == {"IN_QUEUE", "IN_PROGRESS", "CANCELLED"}

JobIds == {"job-1", ""}

\* A response body: audio_url is the member of that name at the top level
\* of the body, which only the speech endpoint may send.
Response(kind, id, status, output, error) ==
    [kind |-> kind, id |-> id, status |-> status, output |-> output,
     error |-> error, audio_url |-> JUndefined]

NoResponse == Response("none", "", "", NoOutput, JUndefined)

\* the awaited request was answered with a non-2xx status or not at all
FailedResponse == Response("failure", "", "", NoOutput, JUndefined)

TerminalStatuses == {"COMPLETED", "FAILED"}

\* The bodies a status request is answered with.
StatusResponses(modality) ==
    {Response("status", "job-1", st, NoOutput, JUndefined) :
        st \in NonTerminalStatuses}
    \cup {Response("status", "job-1", "COMPLETED", out, JUndefined) :
            out \in Outputs(modality)}
    \cup {Response("status", "job-1", "FAILED", NoOutput, e) :
            e \in ErrorFields}

\* The bodies a submission is answered with; "" is a status that is absent.
SubmitResponses(modality) ==
    {Response("submit", id, st, NoOutput, JUndefined) :
        id \in JobIds, st \in {"", "IN_QUEUE", "IN_PROGRESS", "FAILED"}}
    \cup {Response("submit", "job-1", "FAILED", NoOutput,
                    JString("GPU out of memory"))}
    \cup {Response("submit", "job-1", "COMPLETED", out, JUndefined) :
            out \in IF modality = "image" THEN ImageOutputs
                    ELSE {NoOutput, Obj([video_url |-> JString(UrlX),
                                         text |-> JString("hello")])}}

SpeechOutputs ==
    {NoOutput, Obj(EmptyObject)}
    \cup {Obj([audio_url |-> a]) :
            a \in {JString(""), JString(UrlX), JNumber("7")}}

\* The status member of a speech answer: the speech model parses the body
\* without a schema and never reads it ("" stands for a body without one).
SpeechStatuses == {"COMPLETED", "FAILED", ""}

\* The bodies the speech endpoint answers a submission with.
SpeechResponses ==
    {[Response("submit", "job-1", status, out, JUndefined)
        EXCEPT !.audio_url = top] :
        status \in SpeechStatuses, out \in SpeechOutputs,
        top \in {JUndefined, JString(UrlY)}}

\* the bodies a binary GET is answered with
DownloadBodies == {"bytes-a", "bytes-b"}

\* no binary GET has been answered
NoDownload == ""

ImageStatusEnum == {"COMPLETED", "IN_QUEUE", "IN_PROGRESS", "FAILED"}

\* Whether the zod schema of the response handler parses the body:
\* runpodImageResponseSchema / runpodImageStatusSchema restrict the status
\* to an enum, the video and transcription schemas take any string for a
\* status request and an optional string for a submission.
SchemaAccepts(modality, kind, resp) ==
    IF modality = "image" THEN resp.status \in ImageStatusEnum
    ELSE kind = "submit" \/ resp.status # ""

-----------------------------------------------------------------------------
(* Result extraction and messages *)

\* JSON.stringify of one field value
FieldJson(v) == IF v.t = "string" THEN "\"" \o v.s \o "\"" ELSE v.s

\* the members of an object output, in key order, joined by commas
RECURSIVE MembersJson(_, _, _)
MembersJson(f, keys, first) ==
    IF keys = <<>> THEN ""
    ELSE LET k == Head(keys) IN
         IF f[k].t = "undefined" THEN MembersJson(f, Tail(keys), first)
         ELSE (IF first THEN "" ELSE ",") \o "\"" \o k \o "\":"
                  \o FieldJson(f[k]) \o MembersJson(f, Tail(keys), FALSE)

\* `${JSON.stringify(output)}`
Stringify(output) ==
    CASE output.t = "undefined" -> "undefined"
      [] output.t = "string" -> "\"" \o output.s \o "\""
      [] output.t = "object" -> "{" \o MembersJson(output.f, KeyOrder, TRUE) \o "}"

Found(url) == [found |-> TRUE, url |-> url]
NotFound == [found |-> FALSE, url |-> ""]

\* A mutation of extractVideoUrl: result is tried before video_url.
extractVideoUrlResultFirst(output) ==
    IF output.t = "object" /\ output.f["result"].t = "string"
        THEN Found(output.f["result"].s)
    ELSE IF output.t = "object" /\ output.f["video_url"].t = "string"
        THEN Found(output.f["video_url"].s)
    ELSE IF output.t = "object" /\ output.f["url"].t = "string"
        THEN Found(output.f["url"].s)
    ELSE IF output.t = "string" THEN Found(output.s)
    ELSE NotFound

\* RunpodVideoModel.extractVideoUrl; NotFound is the thrown error
extractVideoUrl(output) ==
    IF output.t = "object" /\ output.f["video_url"].t = "string"
        THEN Found(output.f["video_url"].s)
    ELSE IF output.t = "object" /\ output.f["result"].t = "string"
        THEN Found(output.f["result"].s)
    ELSE IF output.t = "object" /\ output.f["url"].t = "string"
        THEN Found(output.f["url"].s)
    ELSE IF output.t = "string" THEN Found(output.s)
    ELSE NotFound

\* output?.result || output?.image_url of the image model; "" is falsy
ImageUrl(output) ==
    IF output.t # "object" THEN ""
    ELSE IF Truthy(output.f["result"]) THEN output.f["result"].s
    ELSE IF Truthy(output.f["image_url"]) THEN output.f["image_url"].s
    ELSE ""

\* (parsed?.output ?? parsed)?.audio_url of the speech model when it is a
\* non-empty string, else ""
SpeechAudioUrl(resp) ==
    LET a == IF resp.output.t # "undefined" THEN resp.output.f["audio_url"]
             ELSE resp.audio_url
    IN  IF a.t = "string" THEN a.s ELSE ""

\* a mutation of TranscriptionText: result is tried before text
TranscriptionTextResultFirst(output) ==
    IF output.t # "object" THEN ""
    ELSE IF output.f["result"].t # "undefined" THEN output.f["result"].s
    ELSE IF output.f["text"].t # "undefined" THEN output.f["text"].s
    ELSE ""

\* output?.text ?? output?.result ?? '' of the transcription model
TranscriptionText(output) ==
    IF output.t # "object" THEN ""
    ELSE IF output.f["text"].t # "undefined" THEN output.f["text"].s
    ELSE IF output.f["result"].t # "undefined" THEN output.f["result"].s
    ELSE ""

\* RunpodTranscriptionModel.parseSegments
parseSegments(output) ==
    IF output.t # "object" \/ ~Has(output.f, "segments") THEN <<>>
    ELSE [i \in 1..Len(output.f["segments"]) |->
            LET segment == output.f["segments"][i]
            IN  [text |-> IF segment.text.t = "undefined" THEN ""
                          ELSE segment.text.s,
                 startSecond |-> IF segment.start.t = "undefined" THEN 0
                                 ELSE segment.start.n,
                 endSecond |-> IF segment.end.t = "undefined" THEN 0
                               ELSE segment.end.n]]

\* The subject of the error messages of a modality.
Subject(modality) ==
    CASE modality = "image" -> "Image generation"
      [] modality = "video" -> "Video generation"
      [] modality = "transcription" -> "Transcription"

\* The digits of a number of thousandths below one, trailing zeros dropped.
Fraction(frac) ==
    LET h == frac \div 100
        t == (frac \div 10) % 10
        u == frac % 10
    IN  ToString(h) \o (IF t = 0 /\ u = 0 THEN ""
                        ELSE ToString(t) \o (IF u = 0 THEN "" ELSE ToString(u)))

\* `${millis / 1000}` as JavaScript prints the quotient
Seconds(millis) ==
    IF millis % 1000 = 0 THEN ToString(millis \div 1000)
    ELSE ToString(millis \div 1000) \o "." \o Fraction(millis % 1000)

TimeoutMessage(modality, maxA, interval) ==
    Subject(modality) \o " timed out after " \o ToString(maxA)
        \o " attempts (" \o Seconds(maxA * interval) \o "s)"

AbortedMessage(modality) == Subject(modality) \o " was aborted"

\* A mutation of FailedMessage: ?? in place of ||, an empty error is kept.
FailedMessageNullish(modality, error) ==
    Subject(modality) \o " failed: "
        \o (IF error.t # "undefined" THEN error.s ELSE "Unknown error")

\* `... failed: ${typedStatusResponse.error || 'Unknown error'}`
FailedMessage(modality, error) ==
    Subject(modality) \o " failed: "
        \o (IF Truthy(error) THEN error.s ELSE "Unknown error")

MalformedPrefix ==
    "Runpod video generation completed but no video URL was found in the output: "

MalformedMessage(output) == MalformedPrefix \o Stringify(output)

-----------------------------------------------------------------------------
(* Outcomes of a call *)

Pending ==
    [kind |-> "pending", name |-> "", message |-> "", value |-> "",
     url |-> "", jobId |-> "", outputs |-> 0, argument |-> "",
     segments |-> <<>>]

\* a thrown error: its class name and its message
Failure(name, message) ==
    [kind |-> "error", name |-> name, message |-> message, value |-> "",
     url |-> "", jobId |-> "", outputs |-> 0, argument |-> "",
     segments |-> <<>>]

\* a thrown InvalidArgumentError: its argument and its message
InvalidArgumentError(argument, message) ==
    [Failure("InvalidArgumentError", message) EXCEPT !.argument = argument]

\* a returned result: the one output, the url and the job id reported in
\* providerMetadata ("" when it reports none)
Success(value, url, id) ==
    [kind |-> "success", name |-> "", message |-> "", value |-> value,
     url |-> url, jobId |-> id, outputs |-> 1, argument |-> "",
     segments |-> <<>>]

\* the result of a transcription call: text and segments of the output
TranscriptionResult(output, id) ==
    [Success(TranscriptionText(output), "", id)
        EXCEPT !.segments = parseSegments(output)]

\* The error of a request that was answered with a non-2xx status: the
\* APICallError of the failedResponseHandler, or the Error the speech model
\* builds itself.
RequestError(modality, kind) ==
    IF modality # "speech" THEN Failure("APICallError", kind)
    ELSE IF kind = "submit"
         THEN Failure("Error", "Runpod speech request failed")
    ELSE Failure("Error", "Failed to download generated audio")

-----------------------------------------------------------------------------
(* Error bodies: extractErrorMessage of runpod-error.ts *)

\* the longest error string, in tokens
MaxErrorLen == 4

\* The tokens of an error string: a piece of plain text, the braces of a
\* JSON object, the members "message" with a text, with an empty text and
\* with a number, and a key whose value is the object that follows.
ErrorText == "Error submitting task: 400, "
MessageMember == "\"message\":\"Invalid size\""
EmptyMessageMember == "\"message\":\"\""
NumberMessageMember == "\"message\":400"
DetailKey == "\"detail\":"

ScalarMembers == {MessageMember, EmptyMessageMember, NumberMessageMember}

ErrorTokens == {ErrorText, "{", "}", DetailKey} \cup ScalarMembers

ErrorStrings == UNION {[1..len -> ErrorTokens] : len \in 0..MaxErrorLen}

\* a member of the error body: absent, or a string given by its tokens
NoMember == [t |-> "undefined", toks |-> <<>>]
StringMember(toks) == [t |-> "string", toks |-> toks]

\* the bodies runpodImageErrorSchema parses
ErrorBodies ==
    [message : {NoMember, StringMember(<<>>),
                StringMember(<<"Top level message">>)},
     error : {NoMember} \cup {StringMember(e) : e \in ErrorStrings}]

NoErrorBody == [message |-> NoMember, error |-> NoMember]

\* A mutation of LastIndexOf: indexOf, the first occurrence.
FirstIndexOf(s, tok) ==
    IF \E i \in 1..Len(s) : s[i] = tok
    THEN CHOOSE i \in 1..Len(s) : s[i] = tok /\ \A j \in 1..(i - 1) : s[j] # tok
    ELSE 0

\* data.error.lastIndexOf('{'), counted from 1; 0 stands for -1
LastIndexOf(s, tok) ==
    IF \E i \in 1..Len(s) : s[i] = tok
    THEN CHOOSE i \in 1..Len(s) :
            s[i] = tok /\ \A j \in (i + 1)..Len(s) : s[j] # tok
    ELSE 0

\* the value JSON.parse gives the member "message" of an object whose
\* members are scalar: of a repeated member the last one
RECURSIVE MessageOf(_)
MessageOf(members) ==
    IF members = <<>> THEN JUndefined
    ELSE LET last == members[Len(members)] IN
         CASE last = MessageMember -> JString("Invalid size")
           [] last = EmptyMessageMember -> JString("")
           [] last = NumberMessageMember -> JNumber("400")
           [] OTHER -> MessageOf(SubSeq(members, 1, Len(members) - 1))

\* JSON.parse(jsonStr) for a text that begins at the last '{' of a string,
\* so that no other object begins in it: the text parses when it is one
\* object of scalar members and nothing follows its closing brace.
JsonParse(jsonStr) ==
    LET n == Len(jsonStr) IN
    IF /\ n >= 2
       /\ jsonStr[1] = "{"
       /\ jsonStr[n] = "}"
       /\ \A i \in 2..(n - 1) : jsonStr[i] \in ScalarMembers
    THEN [ok |-> TRUE, message |-> MessageOf(SubSeq(jsonStr, 2, n - 1))]
    ELSE [ok |-> FALSE, message |-> JUndefined]

\* extractErrorMessage
extractErrorMessage(data) ==
    IF data.message.t = "string" /\ data.message.toks # <<>>
    THEN Text(data.message.toks)
    ELSE IF data.error.t = "string" /\ data.error.toks # <<>>
    THEN LET lastBraceIndex == LastIndexOf(data.error.toks, "{")
             nestedError ==
                 JsonParse(SubSeq(data.error.toks, lastBraceIndex,
                                  Len(data.error.toks)))
         IN  IF /\ lastBraceIndex # 0
                /\ nestedError.ok
                /\ nestedError.message.t = "string"
                /\ nestedError.message.s # ""
             THEN nestedError.message.s
             ELSE Text(data.error.toks)
    ELSE "Unknown Runpod error"

-----------------------------------------------------------------------------
(* Poll policy *)

ImageDefaultMaxAttempts == 60
ImageDefaultPollInterval == 5000
VideoDefaultMaxAttempts == 120
VideoDefaultPollInterval == 5000
TranscriptionDefaultMaxAttempts == 120
TranscriptionDefaultPollInterval == 2000

DefaultMaxAttempts(modality) ==
    CASE modality = "image" -> ImageDefaultMaxAttempts
      [] modality = "video" -> VideoDefaultMaxAttempts
      [] modality = "transcription" -> TranscriptionDefaultMaxAttempts

DefaultPollInterval(modality) ==
    CASE modality = "image" -> ImageDefaultPollInterval
      [] modality = "video" -> VideoDefaultPollInterval
      [] modality = "transcription" -> TranscriptionDefaultPollInterval

\* pollOptions.maxAttempts ?? default
PolicyMaxAttempts(modality, o) ==
    Get(RunpodOptions(o), "maxPollAttempts", DefaultMaxAttempts(modality))

\* pollOptions.pollIntervalMillis ?? default
PolicyPollInterval(modality, o) ==
    Get(RunpodOptions(o), "pollIntervalMillis", DefaultPollInterval(modality))

\* A mutation of LoopContinues: off by one.
LoopContinuesInclusive(att, maxA) == att <= maxA

\* the loop condition of pollForCompletion: attempt < maxAttempts
LoopContinues(att, maxA) == att < maxA

\* A mutation of AbortObserved: the signal is not looked at.
AbortIgnored(signalAborted) == FALSE

\* the check at the top of the loop body: abortSignal?.aborted
AbortObserved(signalAborted) == signalAborted

\* What the top of one loop iteration does.
PollTop(att, maxA, signalAborted) ==
    IF ~LoopContinues(att, maxA) THEN "timeout"
    ELSE IF AbortObserved(signalAborted) THEN "aborted"
    ELSE "request"

\* A mutation of OnRejection: a rejected status request is swallowed and
\* the loop goes on to its wait.
OnRejectionRetryStatus(kind) == IF kind = "status" THEN "wait" ELSE "throw"

\* What the call does when the request it awaits rejects: neither doGenerate
\* nor pollForCompletion has a try block, the error leaves the call.
OnRejection(kind) == "throw"

\* A mutation of PollVerdict: a COMPLETED video or transcription job whose
\* output is missing is polled again.
PollVerdictNeedsOutput(modality, resp) ==
    IF resp.status = "COMPLETED" /\ resp.output.t # "undefined" THEN "return"
    ELSE IF resp.status = "FAILED" THEN "throw"
    ELSE "wait"

\* A mutation of PollVerdict: only IN_QUEUE and IN_PROGRESS are polled
\* again, any other status ends the call as a failed job does.
PollVerdictKnownStatuses(modality, resp) ==
    IF /\ resp.status = "COMPLETED"
       /\ modality = "image" => ImageUrl(resp.output) # ""
    THEN "return"
    ELSE IF resp.status \in {"IN_QUEUE", "IN_PROGRESS"} THEN "wait"
    ELSE IF modality = "image" /\ resp.status = "COMPLETED" THEN "wait"
    ELSE "throw"

\* What pollForCompletion does with a parsed status response.
PollVerdict(modality, resp) ==
    IF /\ resp.status = "COMPLETED"
       /\ modality = "image" => ImageUrl(resp.output) # ""
    THEN "return"
    ELSE IF resp.status = "FAILED" THEN "throw"
    ELSE "wait"

-----------------------------------------------------------------------------
(* Warnings *)

\* A mutation of ExceedsOne: the threshold is one too high.
ExceedsTwo(n) == n > 2

\* n > 1
ExceedsOne(n) == n > 1

CountFeature(modality) ==
    IF modality = "image" THEN "multiple images (n > 1)" ELSE "n > 1"

Unsupported(feature) == [type |-> "unsupported", feature |-> feature]

UnsupportedSetting(setting) ==
    [type |-> "unsupported-setting", setting |-> setting]

\* the warnings array RunpodSpeechModel.doGenerate has built when it submits
SpeechWarnings(o) ==
    (IF Has(o, "outputFormat") /\ o["outputFormat"] # "wav"
     THEN <<UnsupportedSetting("outputFormat")>> ELSE <<>>)
    \o (IF Has(o, "instructions")
        THEN <<UnsupportedSetting("instructions")>> ELSE <<>>)
    \o (IF Has(o, "speed") THEN <<UnsupportedSetting("speed")>> ELSE <<>>)
    \o (IF Has(o, "language")
        THEN <<UnsupportedSetting("language")>> ELSE <<>>)

\* A mutation of Warnings: the mask is ignored without a warning.
WarningsCountOnly(modality, o) ==
    IF modality = "speech" THEN SpeechWarnings(o) ELSE
    (IF modality \in {"image", "video"} /\ ExceedsOne(Get(o, "n", 1))
     THEN <<Unsupported(CountFeature(modality))>> ELSE <<>>)

\* the warnings array doGenerate has built when it submits
Warnings(modality, o) ==
    IF modality = "speech" THEN SpeechWarnings(o) ELSE
    (IF modality = "image" /\ Has(o, "mask")
     THEN <<Unsupported("mask")>> ELSE <<>>)
    \o (IF modality \in {"image", "video"} /\ ExceedsOne(Get(o, "n", 1))
        THEN <<Unsupported(CountFeature(modality))>> ELSE <<>>)

-----------------------------------------------------------------------------
(* Requests *)

Request(kind, url, input, headers) ==
    [kind |-> kind, url |-> url, input |-> input, headers |-> headers]

NoRequest == Request("none", <<>>, EmptyObject, EmptyObject)

\* getHeaders of the provider: the bearer token, then the headers of the
\* provider settings
ConfigHeaders(settingsHeaders) ==
    Spread([Authorization |-> JString("Bearer api-key")], settingsHeaders)

\* the entries of a headers object whose value is neither null nor undefined
DefinedEntries(headers) ==
    [k \in {x \in DOMAIN headers : headers[x] # JUndefined} |-> headers[k]]

\* the headers of the submission. Image: combineHeaders(config.headers(),
\* headers); video and transcription: {...config.headers(), ...headers};
\* speech: Content-Type, then config.headers(), then each per-call entry
\* whose value is not null
SubmitHeaders(m, o) ==
    LET perCall == Get(o, "headers", EmptyObject)
    IN  IF m.modality = "speech"
        THEN Spread(Spread(("Content-Type" :> JString("application/json")),
                           m.headers),
                    DefinedEntries(perCall))
        ELSE Spread(m.headers, perCall)

\* A mutation of StatusHeaders: the status request carries the headers of
\* the submission.
StatusHeadersOfSubmission(m, o) == SubmitHeaders(m, o)

\* the headers of a status request: headers: this.config.headers()
StatusHeaders(m, o) == m.headers

\* tok.replace(from, to) for one token of a URL: the token is from itself
\* or has it as a proper prefix
ReplaceInToken(tok, from, to) ==
    IF tok = from THEN to
    ELSE IF tok = from \o "-lora" THEN to \o "-lora"
    ELSE tok

\* a.replace(from, to) on the tokens of a URL: the first occurrence only
RECURSIVE ReplaceToken(_, _, _)
ReplaceToken(u, from, to) ==
    IF u = <<>> THEN <<>>
    ELSE IF ReplaceInToken(Head(u), from, to) # Head(u)
         THEN <<ReplaceInToken(Head(u), from, to)>> \o Tail(u)
    ELSE <<Head(u)>> \o ReplaceToken(Tail(u), from, to)

\* runpodOptions?.loras && Array.isArray(loras) && loras.length > 0
HasLoras(ro) ==
    /\ Has(ro, "loras")
    /\ ro["loras"].t = "array"
    /\ Len(ro["loras"].items) > 0

\* A mutation of ImageEffectiveBaseURL: any loras option switches the
\* endpoint, an empty list and a value that is no array included.
ImageEffectiveBaseURLAnyLoras(m, o) ==
    IF /\ Includes(m.modelId, "qwen-image-edit-2511")
       /\ ~Includes(m.modelId, "lora")
       /\ Has(RunpodOptions(o), "loras")
    THEN ReplaceToken(m.baseURL, "qwen-image-edit-2511",
                      "qwen-image-edit-2511-lora")
    ELSE m.baseURL

\* effectiveBaseURL of RunpodImageModel.doGenerate
ImageEffectiveBaseURL(m, o) ==
    LET ro == RunpodOptions(o) IN
    IF /\ Includes(m.modelId, "qwen-image-edit-2511")
       /\ ~Includes(m.modelId, "lora")
       /\ HasLoras(ro)
    THEN ReplaceToken(m.baseURL, "qwen-image-edit-2511",
                      "qwen-image-edit-2511-lora")
    ELSE m.baseURL

\* the base the status requests of a call are built on
EffectiveBaseURL(m, o) ==
    IF m.modality = "image" THEN ImageEffectiveBaseURL(m, o)
    ELSE withoutTrailingSlash(m.baseURL)

\* the url of the submission POST
SubmitUrl(m, o) ==
    IF m.modality = "image"
    THEN ImageEffectiveBaseURL(m, o) \o <<"/", "runsync">>
    ELSE IF m.modality = "speech" THEN getRunpodRunSyncUrl(m.baseURL)
    ELSE getRunpodRunUrl(m.baseURL)

\* `${baseURL}/status/${jobId}`
StatusUrl(m, o, id) == EffectiveBaseURL(m, o) \o <<"/", "status", "/", id>>

\* the input member of the submitted body
InputPayload(m, o) ==
    CASE m.modality = "image" -> buildImageInputPayload(m.modelId, o)
      [] m.modality = "video" -> buildVideoInputPayload(o)
      [] m.modality = "transcription" -> buildTranscriptionInput(o)
      [] m.modality = "speech" -> buildSpeechInput(o)

-----------------------------------------------------------------------------
(* The calls explored *)

Endpoint == <<"https://api.runpod.ai/v2", "/", "endpoint">>

BaseURLs ==
    { Endpoint,
      Endpoint \o <<"/">>,
      Endpoint \o <<"/", "run">>,
      Endpoint \o <<"/", "runsync">>,
      Endpoint \o <<"/", "run", "/">> }

\* the endpoints the provider maps the Qwen Image Edit 2511 ids to
QwenEndpoint == <<"https://api.runpod.ai/v2", "/", "qwen-image-edit-2511">>
QwenLoraEndpoint ==
    <<"https://api.runpod.ai/v2", "/", "qwen-image-edit-2511-lora">>

\* the headers of a provider created without settings.headers
DefaultHeaders == [Authorization |-> JString("Bearer api-key")]

Model(modality, id, baseURL) ==
    [modality |-> modality, modelId |-> id, baseURL |-> baseURL,
     headers |-> DefaultHeaders]

\* every model instance: each family on each configured endpoint
Models ==
    {Model("image", id, b) : id \in ImageModelIds, b \in BaseURLs}
    \cup {Model("video", id, b) : id \in VideoModelIds, b \in BaseURLs}
    \cup {Model("transcription", id, b) :
            id \in TranscriptionModelIds, b \in BaseURLs}

\* one model instance of each modality on the plain endpoint
PlainModels ==
    { Model("image", "qwen/qwen-image", Endpoint),
      Model("video", "alibaba/wan-2.6-t2v", Endpoint),
      Model("transcription", "pruna/whisper-v3-large", Endpoint) }

\* the objects over a set of optional keys, each key with its values
Objects(keys, values(_)) ==
    UNION { [ks -> UNION {values(k) : k \in ks}] : ks \in SUBSET keys }

WellTyped(obj, values(_)) == \A k \in DOMAIN obj : obj[k] \in values(k)

\* providerOptions.runpod with any poll policy, the default one included
DeepRunpodValues(k) ==
    CASE k = "maxPollAttempts" -> 0..MaxPollAttempts
      [] k = "pollIntervalMillis" -> {10, 1500}

DeepRunpodOptions ==
    {ro \in Objects(PollingOptionKeys, DeepRunpodValues) :
        WellTyped(ro, DeepRunpodValues)}

\* providerOptions.runpod with a short explicit poll policy and a
\* pass-through option
WideRunpodValues(k) ==
    CASE k = "maxPollAttempts" -> {1}
      [] k = "pollIntervalMillis" -> {1500}
      [] k = "guidance_scale" -> {7}

WideRunpodOptions ==
    {ro \in Objects({"maxPollAttempts", "pollIntervalMillis", "guidance_scale"},
                    WideRunpodValues) :
        WellTyped(ro, WideRunpodValues) /\ Has(ro, "maxPollAttempts")}

SizeOptions ==
    { EmptyObject,
      [size |-> <<"1024", "x", "1024">>],
      [size |-> <<"999", "x", "999">>],
      [aspectRatio |-> "4:3"],
      [aspectRatio |-> "16:9"] }

\* the calls that explore the polling loop to its full depth
DeepCalls ==
    { [model |-> m,
       options |-> [prompt |-> "a prompt", n |-> 1, runpod |-> ro]] :
        m \in PlainModels, ro \in DeepRunpodOptions }

\* the calls that explore every family, endpoint, count and size
WideCalls ==
    { [model |-> m,
       options |-> Spread([prompt |-> "a prompt", n |-> n, runpod |-> ro], so)] :
        m \in Models, n \in 1..MaxN, ro \in WideRunpodOptions,
        so \in SizeOptions }

\* providerOptions.runpod.loras: absent, an empty list, a list, no list
LorasOptions ==
    { EmptyObject,
      [loras |-> JArray(<<>>)],
      [loras |-> JArray(<<"anime-lora">>)],
      [loras |-> JString("anime-lora")] }

\* the image models the endpoint switch tells apart: the edit model and
\* its LoRA variant on their mapped endpoints, the edit model on a
\* baseURL of the caller, and a model of another family
LoraModels ==
    { Model("image", "qwen/qwen-image-edit-2511", QwenEndpoint),
      Model("image", "qwen/qwen-image-edit-2511", QwenLoraEndpoint),
      Model("image", "qwen/qwen-image-edit-2511", Endpoint),
      Model("image", "qwen/qwen-image-edit-2511-lora", QwenLoraEndpoint),
      Model("image", "qwen/qwen-image", Endpoint) }

\* the calls that explore the LoRA endpoint switch
LoraCalls ==
    { [model |-> m,
       options |-> [prompt |-> "a prompt", n |-> 1,
                    runpod |-> Spread([maxPollAttempts |-> 1], lo)]] :
        m \in LoraModels, lo \in LorasOptions }

\* the settings of a speech call the endpoint does not support
SpeechSettings ==
    { EmptyObject,
      [outputFormat |-> "wav"],
      [outputFormat |-> "mp3"],
      [outputFormat |-> "mp3", speed |-> 2],
      [instructions |-> "speak calmly", language |-> "en"] }

\* providerOptions.runpod of a speech call
SpeechRunpodOptions ==
    { EmptyObject,
      [voice_url |-> "https://cdn/voice.wav"],
      [voiceUrl |-> "https://cdn/voice2.wav"] }

\* the calls of the speech model
SpeechCalls ==
    { [model |-> Model("speech", id, b),
       options |-> Spread(Spread([text |-> t, runpod |-> ro], v), st)] :
        id \in SpeechModelIds, b \in BaseURLs,
        t \in {<<"Hello">>, <<"Hello", "\r", "\n", "world">>},
        v \in {EmptyObject, [voice |-> "lucy"]},
        ro \in SpeechRunpodOptions, st \in SpeechSettings }

\* the largest number of reference files of a call
MaxFiles == 2

\* a reference file given by url, and one given by its base64 data
UrlFile ==
    [type |-> "url", url |-> "https://cdn/ref.png", data |-> "",
     isDataUrl |-> FALSE, mediaType |-> ""]
DataFile ==
    [type |-> "file", url |-> "", data |-> "AAAA", isDataUrl |-> FALSE,
     mediaType |-> "image/png"]

\* the files of a call: none, or up to MaxFiles of the two kinds in any order
FileLists == UNION {[1..len -> {UrlFile, DataFile}] : len \in 0..MaxFiles}

\* the image references a caller can put in providerOptions.runpod
LegacyImage == "https://cdn/legacy.png"
LegacyImages == <<"https://cdn/legacy-1.png", "https://cdn/legacy-2.png">>

\* a key of providerOptions.runpod: absent or given
Optional(k, v) == {EmptyObject, [x \in {k} |-> v]}

\* providerOptions.runpod of an image call: legacy image references and a
\* seed, which the typed call fields also fill
ImageOverrideOptions ==
    {Spread(Spread(Spread([maxPollAttempts |-> 1], i), is), sd) :
        i \in Optional("image", LegacyImage),
        is \in Optional("images", LegacyImages),
        sd \in Optional("seed", 42)}

\* providerOptions.runpod of a video call: keys the typed call fields fill
VideoOverrideOptions ==
    {Spread(Spread([maxPollAttempts |-> 1], sd), pr) :
        sd \in Optional("seed", 42),
        pr \in Optional("prompt", "another prompt")}

\* the typed seed of a call: absent or given
TypedSeeds == {EmptyObject, [seed |-> 7]}

\* the image calls that explore reference files against
\* providerOptions.runpod, in every family
ReferenceCalls ==
    { [model |-> Model("image", id, Endpoint),
       options |-> Spread(IF Len(files) = 0
                          THEN [prompt |-> "a prompt", n |-> 1, runpod |-> ro]
                          ELSE [prompt |-> "a prompt", n |-> 1, runpod |-> ro,
                                files |-> files],
                          seed)] :
        id \in ImageModelIds, files \in FileLists, seed \in TypedSeeds,
        ro \in ImageOverrideOptions }

\* the resolution of a video call: absent or given
Resolutions ==
    {EmptyObject, [resolution |-> <<"1280", "x", "720">>],
     [resolution |-> <<"720", "x", "1280">>]}

\* the video calls that explore the typed fields against
\* providerOptions.runpod
OverrideCalls ==
    { [model |-> Model("video", id, Endpoint),
       options |-> Spread(Spread([prompt |-> "a prompt", n |-> 1, runpod |-> ro],
                                 seed), res)] :
        id \in VideoModelIds, seed \in TypedSeeds,
        ro \in VideoOverrideOptions, res \in Resolutions }

\* a size of the call: its width and height in the WxH form
Size(w, h) == <<ToString(w), "x", ToString(h)>>

\* the sizes and aspect ratios of a call: every size of the catalog, sizes
\* around the pixel counts 768*768 and 1280*1280, sizes of no catalog, and
\* aspect ratios in and out of the catalog, alone and next to a size
SizeProbeOptions ==
    { [size |-> ReplaceFirst(SUPPORTED_SIZES_ORDER[i], "*", "x")] :
        i \in 1..Len(SUPPORTED_SIZES_ORDER) }
    \cup { [size |-> sz] :
             sz \in { Size(1280, 1280), Size(1280, 720), Size(720, 1280),
                      Size(1200, 800), Size(767, 768), Size(1281, 1280),
                      Size(999, 999), Size(1328, 1329) } }
    \cup { [aspectRatio |-> ar] : ar \in {"1:1", "4:3", "3:4", "16:9", "5:4"} }
    \cup { [size |-> Size(1024, 1024), aspectRatio |-> "5:4"],
           [size |-> Size(999, 999), aspectRatio |-> "4:3"],
           EmptyObject }

\* the image calls that explore the size decision, in every family
SizeCalls ==
    { [model |-> Model("image", id, Endpoint),
       options |-> Spread([prompt |-> "a prompt", n |-> 1,
                           runpod |-> [maxPollAttempts |-> 1]], so)] :
        id \in ImageModelIds \cup LoraModelIds, so \in SizeProbeOptions }

\* the image calls with a mask, with and without reference files
MaskCalls ==
    { [model |-> Model("image", id, Endpoint),
       options |-> Spread([prompt |-> "a prompt", n |-> n, mask |-> DataFile,
                           runpod |-> [maxPollAttempts |-> 1]], fs)] :
        id \in ImageModelIds, n \in 1..MaxN,
        fs \in {EmptyObject, [files |-> <<UrlFile>>]} }

\* the aspect ratio of a call: absent, of the catalog, of no catalog
AspectRatios == {EmptyObject, [aspectRatio |-> "4:3"], [aspectRatio |-> "7:5"]}

\* providerOptions.runpod.aspect_ratio: absent, custom, a ratio
ProviderAspectRatios ==
    {EmptyObject, [aspect_ratio |-> "custom"], [aspect_ratio |-> "16:9"]}

\* providerOptions.runpod.width: absent, zero, the ends of the documented
\* range 256..1440, and values below it, above it and off the step of 16
Widths ==
    {EmptyObject} \cup {[width |-> w] : w \in {0, 256, 1440, 100, 1456, 260}}

\* providerOptions.runpod.height: absent, in the documented range, above it
Heights == {EmptyObject} \cup {[height |-> h] : h \in {512, 2000}}

\* the image calls of the families that take an aspect ratio as it is:
\* Pruna text-to-image with every width and height, Pruna edit and Nano
\* Banana Pro without
AspectCalls ==
    { [model |-> Model("image", id, Endpoint),
       options |-> Spread([prompt |-> "a prompt", n |-> 1,
                           runpod |-> Spread(Spread(Spread(
                               [maxPollAttempts |-> 1], pa), w), h)], ar)] :
        id \in {"pruna/p-image-t2i"}, ar \in AspectRatios,
        pa \in ProviderAspectRatios, w \in Widths, h \in Heights }
    \cup
    { [model |-> Model("image", id, Endpoint),
       options |-> Spread([prompt |-> "a prompt", n |-> 1,
                           runpod |-> Spread(Spread(
                               [maxPollAttempts |-> 1], pa),
                               [width |-> 512, height |-> 512])], ar)] :
        id \in {"pruna/p-image-edit", "google/nano-banana-pro-edit"},
        ar \in AspectRatios, pa \in ProviderAspectRatios }

\* model ids of no catalog that carry the texts of two families
MixedFamilyIds == {"pruna/flux-1-dev", "pruna/flux-1-kontext-dev"}

\* the image calls of these ids, with and without a size and an aspect
\* ratio
MixedFamilyCalls ==
    { [model |-> Model("image", id, Endpoint),
       options |-> Spread([prompt |-> "a prompt", n |-> 1,
                           runpod |-> [maxPollAttempts |-> 1]], so)] :
        id \in MixedFamilyIds, so \in SizeOptions }

\* the byte values and the lengths of the audio of a transcription call
AudioByteValues == {0, 102, 111, 255}
MaxAudioLen == 4

RECURSIVE SeqsUpTo(_, _)
SeqsUpTo(values, n) ==
    IF n = 0 THEN {<<>>}
    ELSE LET shorter == SeqsUpTo(values, n - 1)
         IN  shorter \cup {Append(q, v) : q \in shorter, v \in values}

\* the audio of a call: a Uint8Array, or a string of base64 text
Audios ==
    {BytesAudio(b) : b \in SeqsUpTo(AudioByteValues, MaxAudioLen)}
    \cup {StringAudio(<<"Z", "m", "9", "v">>), StringAudio(<<>>)}

\* providerOptions.runpod.audio: absent, empty, a url, no string
ProviderAudios ==
    {EmptyObject, [audio |-> JString("")],
     [audio |-> JString("https://cdn/audio.mp3")], [audio |-> JNumber("7")]}

\* the transcription calls that explore the audio of the input
TranscriptionCalls ==
    { [model |-> Model("transcription", id, Endpoint),
       options |-> [audio |-> a,
                    runpod |-> Spread([maxPollAttempts |-> 1], pa)]] :
        id \in TranscriptionModelIds, a \in Audios, pa \in ProviderAudios }

\* settings.headers of the provider: absent, a custom header, a header that
\* replaces the bearer token
SettingsHeaders ==
    { EmptyObject,
      ("X-Custom" :> JString("configured")),
      [Authorization |-> JString("Bearer other")] }

\* the headers of one call: none, a new key, a key of the configuration with
\* another value, a key without a value
CallHeaders ==
    { EmptyObject,
      ("X-Trace" :> JString("per-call")),
      ("X-Custom" :> JString("per-call")),
      [Authorization |-> JString("Bearer per-call")],
      ("X-Custom" :> JUndefined) }

\* one model of each modality, each provider configuration, each per-call
\* headers object
HeaderCalls ==
    { [model |-> [m EXCEPT !.headers = ConfigHeaders(sh)],
       options |-> Spread(o, [headers |-> h])] :
        m \in PlainModels, sh \in SettingsHeaders, h \in CallHeaders,
        o \in {[prompt |-> "a prompt", n |-> 1,
                runpod |-> [maxPollAttempts |-> 2, pollIntervalMillis |-> 10]]} }
    \cup
    { [model |-> [Model("speech", id, Endpoint)
                    EXCEPT !.headers = ConfigHeaders(sh)],
       options |-> [text |-> <<"Hello">>, runpod |-> EmptyObject,
                    headers |-> h]] :
        id \in SpeechModelIds, sh \in SettingsHeaders, h \in CallHeaders }

Calls ==
    MaskCalls \cup DeepCalls \cup WideCalls \cup LoraCalls \cup SpeechCalls
        \cup ReferenceCalls \cup OverrideCalls \cup SizeCalls
        \cup AspectCalls \cup TranscriptionCalls
        \cup MixedFamilyCalls \cup HeaderCalls

-----------------------------------------------------------------------------
(* The state machine of one doGenerate call *)

Init ==
    /\ \E c \in Calls : model = c.model /\ options = c.options
    /\ pc = "start"
    /\ aborted \in BOOLEAN
    /\ attempt = 0
    /\ maxAttempts = 0
    /\ pollInterval = 0
    /\ warnings = <<>>
    /\ submitCount = 0
    /\ statusCount = 0
    /\ downloadCount = 0
    /\ waitCount = 0
    /\ lastRequest = NoRequest
    /\ lastResponse = NoResponse
    /\ jobId = ""
    /\ pollEntered = FALSE
    /\ terminalSeen = FALSE
    /\ outcome = Pending
    /\ calls = <<>>
    /\ jobs = <<>>
    /\ errorBody = NoErrorBody
    /\ downloaded = NoDownload

\* the call ends: it throws or returns
Finish(o) ==
    /\ pc' = "done"
    /\ outcome' = o
    /\ UNCHANGED <<statusCount, downloadCount, waitCount, lastRequest>>

\* getFromApi on the status url
IssueStatus(id) ==
    /\ pc' = "polling"
    /\ statusCount' = statusCount + 1
    /\ lastRequest' = Request("status", StatusUrl(model, options, id),
                              EmptyObject, StatusHeaders(model, options))
    /\ UNCHANGED <<outcome, downloadCount, waitCount>>

\* A mutation of IssueDownload: the result is fetched twice.
IssueDownloadTwice(url) ==
    /\ pc' = "downloading"
    /\ downloadCount' = downloadCount + 2
    /\ lastRequest' = Request("download", <<url>>, EmptyObject, EmptyObject)
    /\ UNCHANGED <<outcome, statusCount, waitCount>>

\* downloadImage: getFromApi on the image url; fetchFn(audioUrl) of the
\* speech model
IssueDownload(url) ==
    /\ pc' = "downloading"
    /\ downloadCount' = downloadCount + 1
    /\ lastRequest' = Request("download", <<url>>, EmptyObject, EmptyObject)
    /\ UNCHANGED <<outcome, statusCount, waitCount>>

\* await new Promise(resolve => setTimeout(resolve, pollInterval))
StartWait ==
    /\ pc' = "waiting"
    /\ waitCount' = waitCount + 1
    /\ UNCHANGED <<outcome, statusCount, downloadCount, lastRequest>>

\* The top of the iteration `att` of pollForCompletion, up to its await.
Iteration(att, maxA, interval, id) ==
    /\ attempt' = att
    /\ maxAttempts' = maxA
    /\ pollInterval' = interval
    /\ jobId' = id
    /\ pollEntered' = TRUE
    /\ LET top == PollTop(att, maxA, aborted) IN
        CASE top = "timeout" ->
                Finish(Failure("Error",
                               TimeoutMessage(model.modality, maxA, interval)))
          [] top = "aborted" ->
                Finish(Failure("Error", AbortedMessage(model.modality)))
          [] top = "request" -> IssueStatus(id)

\* doGenerate from its entry to the await of the submission
DoGenerate ==
    /\ pc = "start"
    /\ IF model.modality = "image" /\ InvalidArgument(model.modelId, options) # ""
       THEN /\ pc' = "done"
            /\ outcome' = InvalidArgumentError(
                              InvalidArgument(model.modelId, options),
                              InvalidArgumentMessage(model.modelId, options))
            /\ UNCHANGED <<warnings, submitCount, lastRequest>>
       ELSE /\ pc' = "submitting"
            /\ warnings' = Warnings(model.modality, options)
            /\ submitCount' = submitCount + 1
            /\ lastRequest' = Request("submit", SubmitUrl(model, options),
                                      InputPayload(model, options),
                                      SubmitHeaders(model, options))
            /\ UNCHANGED outcome
    /\ UNCHANGED <<model, options, aborted, attempt, maxAttempts, pollInterval,
                   statusCount, downloadCount, waitCount, lastResponse, jobId,
                   pollEntered, terminalSeen>>
    /\ UNCHANGED <<cvars, errorBody, downloaded>>

\* the submission is answered with a body its schema parses
SubmitResponse ==
    /\ pc = "submitting"
    /\ \E resp \in IF model.modality = "speech" THEN SpeechResponses
                     ELSE SubmitResponses(model.modality) :
        /\ SchemaAccepts(model.modality, "submit", resp)
        /\ lastResponse' = resp
        /\ IF model.modality = "speech"
           THEN /\ IF SpeechAudioUrl(resp) = ""
                   THEN Finish(Failure("Error",
                      "Runpod speech response did not include an audio_url."))
                   ELSE IssueDownload(SpeechAudioUrl(resp))
                /\ UNCHANGED <<attempt, maxAttempts, pollInterval, jobId,
                               pollEntered>>
           ELSE IF model.modality = "image"
           THEN IF resp.status = "COMPLETED" /\ ImageUrl(resp.output) # ""
                THEN /\ IssueDownload(ImageUrl(resp.output))
                     /\ UNCHANGED <<attempt, maxAttempts, pollInterval, jobId,
                                     pollEntered>>
                ELSE IF resp.status \in {"IN_QUEUE", "IN_PROGRESS"}
                THEN Iteration(0, PolicyMaxAttempts("image", options),
                               PolicyPollInterval("image", options), resp.id)
                ELSE /\ Finish(Failure("Error", "Unexpected response status: "
                                                    \o resp.status))
                     /\ UNCHANGED <<attempt, maxAttempts, pollInterval, jobId,
                                     pollEntered>>
           ELSE IF resp.id = ""
                THEN /\ Finish(Failure("Error", "Runpod " \o model.modality
                                  \o " response did not include a job id."))
                     /\ UNCHANGED <<attempt, maxAttempts, pollInterval, jobId,
                                     pollEntered>>
                ELSE Iteration(0, PolicyMaxAttempts(model.modality, options),
                               PolicyPollInterval(model.modality, options),
                               resp.id)
    /\ UNCHANGED <<model, options, aborted, warnings, submitCount,
                   terminalSeen>>
    /\ UNCHANGED <<cvars, errorBody, downloaded>>

\* the awaited request fails: a non-2xx answer or a network error
RequestFailure ==
    /\ pc \in {"submitting", "polling", "downloading"}
    /\ lastResponse' = FailedResponse
    /\ IF OnRejection(lastRequest.kind) = "throw"
       THEN Finish(RequestError(model.modality, lastRequest.kind))
       ELSE StartWait
    /\ UNCHANGED <<model, options, aborted, attempt, maxAttempts, pollInterval,
                   warnings, submitCount, jobId, pollEntered, terminalSeen>>
    /\ UNCHANGED <<cvars, errorBody, downloaded>>

\* fetch rejects the awaited request because the signal is aborted
RequestAborted ==
    /\ pc \in {"submitting", "polling", "downloading"}
    /\ aborted
    /\ Finish(Failure("AbortError", "This operation was aborted"))
    /\ UNCHANGED <<model, options, aborted, attempt, maxAttempts, pollInterval,
                   warnings, submitCount, lastResponse, jobId, pollEntered,
                   terminalSeen>>
    /\ UNCHANGED <<cvars, errorBody, downloaded>>

\* a status request is answered
StatusResponse ==
    /\ pc = "polling"
    /\ \E resp \in StatusResponses(model.modality) :
        /\ lastResponse' = resp
        /\ terminalSeen' = (terminalSeen \/ resp.status \in TerminalStatuses)
        /\ IF ~SchemaAccepts(model.modality, "status", resp)
           THEN IF OnRejection("status") = "throw"
                THEN Finish(Failure("APICallError", "Invalid JSON response"))
                ELSE StartWait
           ELSE LET verdict == PollVerdict(model.modality, resp) IN
                CASE verdict = "wait" -> StartWait
                  [] verdict = "throw" ->
                        Finish(Failure("Error",
                                   FailedMessage(model.modality, resp.error)))
                  [] verdict = "return" /\ model.modality = "image" ->
                        IssueDownload(ImageUrl(resp.output))
                  [] verdict = "return" /\ model.modality = "video" ->
                        LET u == extractVideoUrl(resp.output) IN
                        IF u.found THEN Finish(Success(u.url, "", jobId))
                        ELSE Finish(Failure("Error",
                                            MalformedMessage(resp.output)))
                  [] verdict = "return" /\ model.modality = "transcription" ->
                        Finish(TranscriptionResult(resp.output, jobId))
    /\ UNCHANGED <<model, options, aborted, attempt, maxAttempts, pollInterval,
                   warnings, submitCount, jobId, pollEntered>>
    /\ UNCHANGED <<cvars, errorBody, downloaded>>

\* the timer of the wait never fires: the call stays in its wait
WaitElapsedNever ==
    /\ pc = "waiting"
    /\ pc' = "waiting"
    /\ UNCHANGED <<model, options, aborted, attempt, maxAttempts, pollInterval,
                   warnings, submitCount, statusCount, downloadCount,
                   waitCount, lastRequest, lastResponse, jobId, pollEntered,
                   terminalSeen, outcome>>
    /\ UNCHANGED <<cvars, errorBody, downloaded>>

\* the timer of the wait fires and the loop goes to its next iteration
WaitElapsed ==
    /\ pc = "waiting"
    /\ Iteration(attempt + 1, maxAttempts, pollInterval, jobId)
    /\ UNCHANGED <<model, options, aborted, warnings, submitCount, lastResponse,
                   terminalSeen>>
    /\ UNCHANGED <<cvars, errorBody, downloaded>>

\* the binary GET is answered and the result carries other bytes than the
\* answer
DownloadResponseOtherBytes ==
    /\ pc = "downloading"
    /\ \E bytes \in DownloadBodies :
        /\ downloaded' = bytes
        /\ \E other \in DownloadBodies \ {bytes} :
            Finish(Success(other, lastRequest.url[1], jobId))
    /\ UNCHANGED <<model, options, aborted, attempt, maxAttempts, pollInterval,
                   warnings, submitCount, lastResponse, jobId, pollEntered,
                   terminalSeen>>
    /\ UNCHANGED <<cvars, errorBody>>

\* the binary GET of the result url is answered: the result carries the
\* bytes of the answer
DownloadResponse ==
    /\ pc = "downloading"
    /\ \E bytes \in DownloadBodies :
        /\ downloaded' = bytes
        /\ Finish(Success(bytes, lastRequest.url[1], jobId))
    /\ UNCHANGED <<model, options, aborted, attempt, maxAttempts, pollInterval,
                   warnings, submitCount, lastResponse, jobId, pollEntered,
                   terminalSeen>>
    /\ UNCHANGED <<cvars, errorBody>>

\* the caller aborts the signal
Abort ==
    /\ pc # "done"
    /\ ~aborted
    /\ aborted' = TRUE
    /\ UNCHANGED <<model, options, pc, attempt, maxAttempts, pollInterval,
                   warnings, submitCount, statusCount, downloadCount,
                   waitCount, lastRequest, lastResponse, jobId, pollEntered,
                   terminalSeen, outcome>>
    /\ UNCHANGED <<cvars, errorBody, downloaded>>

Next ==
    \/ DoGenerate
    \/ SubmitResponse
    \/ RequestFailure
    \/ RequestAborted
    \/ StatusResponse
    \/ WaitElapsed
    \/ DownloadResponse
    \/ Abort

Spec == Init /\ [][Next]_vars

-----------------------------------------------------------------------------
(* Concurrent doGenerate calls on one model instance.  Each call has the   *)
(* locals of its doGenerate and pollForCompletion activations; the model   *)
(* instance holds modelId and config only.  The remote service keeps one   *)
(* job per submission and answers a status request by the job id in its    *)
(* url.                                                                    *)

NumCalls == 2

CallIds == 1..NumCalls

\* the job id the service gives its k-th job
JobName(k) == "job-" \o ToString(k)

\* the options of the i-th concurrent call: each call has its own count and
\* its own poll policy
ConcurrentOptions(i) ==
    [prompt |-> "a prompt",
     n |-> 1 + (i % MaxN),
     runpod |-> [maxPollAttempts |-> 1 + (i % MaxPollAttempts),
                 pollIntervalMillis |-> 1000 * i]]

\* the outputs of a job that completes
CompletedOutputs(modality) ==
    CASE modality = "image" -> {Obj([result |-> JString(u)]) : u \in {UrlX, UrlY}}
      [] modality = "video" ->
            {Obj([video_url |-> JString(u)]) : u \in {UrlX, UrlY}}
      [] modality = "transcription" ->
            {Obj([text |-> JString(t)]) : t \in {"hello", "hi"}}

\* how a job of the service goes: the number of status requests it answers
\* with IN_PROGRESS, and what it answers from then on
Fates(modality) ==
    [pending : 0..1,
     final : {Response("status", "", "COMPLETED", out, JUndefined) :
                 out \in CompletedOutputs(modality)}
             \cup {Response("status", "", "FAILED", NoOutput,
                            JString("GPU out of memory")),
                   FailedResponse}]

\* the answer of a job to the k-th status request for it
FateResponse(fate, k) ==
    IF k <= fate.pending
    THEN Response("status", "", "IN_PROGRESS", NoOutput, JUndefined)
    ELSE fate.final

\* the bytes a GET of a result url returns
BytesAt(url) == "bytes of " \o url

\* the locals of a call that has not started
IdleCall(i) ==
    [o |-> ConcurrentOptions(i), pc |-> "start", attempt |-> 0, jobId |-> "",
     job |-> 0, asked |-> "", url |-> <<>>, result |-> "", warnings |-> <<>>,
     statusCount |-> 0, outcome |-> Pending]

\* A mutation of PollJobId: the job id is kept in a field of the model
\* instance, which the latest submission has overwritten.
PollJobIdShared(own, latest) == latest

\* the jobId parameter of pollForCompletion: the local typedResponse.id of
\* the doGenerate activation that calls it
PollJobId(own, latest) == own

\* the top of the iteration att of pollForCompletion in the call c
PollStep(m, c, att, latest) ==
    LET maxA == PolicyMaxAttempts(m.modality, c.o)
        interval == PolicyPollInterval(m.modality, c.o)
        id == PollJobId(c.jobId, latest)
    IN  IF PollTop(att, maxA, FALSE) = "timeout"
        THEN [c EXCEPT !.attempt = att, !.pc = "done",
                       !.outcome = Failure("Error",
                            TimeoutMessage(m.modality, maxA, interval))]
        ELSE [c EXCEPT !.attempt = att, !.pc = "polling",
                       !.statusCount = @ + 1, !.asked = id,
                       !.url = StatusUrl(m, c.o, id)]

\* the call c after its status request was answered with resp
AfterStatus(m, c, resp) ==
    IF resp.kind = "failure"
    THEN [c EXCEPT !.pc = "done", !.outcome = RequestError(m.modality, "status")]
    ELSE LET verdict == PollVerdict(m.modality, resp) IN
         CASE verdict = "wait" -> [c EXCEPT !.pc = "waiting"]
           [] verdict = "throw" ->
                [c EXCEPT !.pc = "done",
                          !.outcome = Failure("Error",
                               FailedMessage(m.modality, resp.error))]
           [] verdict = "return" /\ m.modality = "image" ->
                [c EXCEPT !.pc = "downloading",
                          !.result = ImageUrl(resp.output)]
           [] verdict = "return" /\ m.modality = "video" ->
                LET u == extractVideoUrl(resp.output) IN
                [c EXCEPT !.pc = "done",
                          !.outcome = IF u.found THEN Success(u.url, "", c.jobId)
                                      ELSE Failure("Error",
                                               MalformedMessage(resp.output))]
           [] verdict = "return" /\ m.modality = "transcription" ->
                [c EXCEPT !.pc = "done",
                          !.outcome = TranscriptionResult(resp.output,
                                                          c.jobId)]

CInit ==
    /\ model \in PlainModels
    /\ calls = [i \in CallIds |-> IdleCall(i)]
    /\ jobs = <<>>
    /\ errorBody = NoErrorBody
    /\ downloaded = NoDownload
    /\ options = EmptyObject
    /\ pc = "done"
    /\ aborted = FALSE
    /\ attempt = 0
    /\ maxAttempts = 0
    /\ pollInterval = 0
    /\ warnings = <<>>
    /\ submitCount = 0
    /\ statusCount = 0
    /\ downloadCount = 0
    /\ waitCount = 0
    /\ lastRequest = NoRequest
    /\ lastResponse = NoResponse
    /\ jobId = ""
    /\ pollEntered = FALSE
    /\ terminalSeen = FALSE
    /\ outcome = Pending

\* the call i runs doGenerate up to the await of its submission
CDoGenerate(i) ==
    /\ calls[i].pc = "start"
    /\ calls' = [calls EXCEPT ![i].pc = "submitting",
                              ![i].warnings = Warnings(model.modality, calls[i].o)]
    /\ UNCHANGED <<model, jobs, svars>>

\* the service accepts the submission of the call i as a new job, and the
\* call enters pollForCompletion
CSubmitResponse(i) ==
    /\ calls[i].pc = "submitting"
    /\ \E fate \in Fates(model.modality) :
        LET k == Len(jobs) + 1
            c == [calls[i] EXCEPT !.jobId = JobName(k), !.job = k]
        IN  /\ jobs' = Append(jobs, [fate |-> fate, polls |-> 0])
            /\ calls' = [calls EXCEPT ![i] = PollStep(model, c, 0, JobName(k))]
    /\ UNCHANGED <<model, svars>>

\* the service answers the status request of the call i for the job named
\* in its url
CStatusResponse(i) ==
    /\ calls[i].pc = "polling"
    /\ LET j == CHOOSE k \in 1..Len(jobs) : JobName(k) = calls[i].asked
           resp == FateResponse(jobs[j].fate, jobs[j].polls + 1)
       IN  /\ jobs' = [jobs EXCEPT ![j].polls = @ + 1]
           /\ calls' = [calls EXCEPT ![i] = AfterStatus(model, calls[i], resp)]
    /\ UNCHANGED <<model, svars>>

\* the wait of the call i ends
CWaitElapsed(i) ==
    /\ calls[i].pc = "waiting"
    /\ calls' = [calls EXCEPT ![i] =
                    PollStep(model, calls[i], calls[i].attempt + 1,
                             JobName(Len(jobs)))]
    /\ UNCHANGED <<model, jobs, svars>>

\* the binary GET of the call i is answered
CDownloadResponse(i) ==
    /\ calls[i].pc = "downloading"
    /\ calls' = [calls EXCEPT ![i].pc = "done",
                              ![i].outcome = Success(BytesAt(calls[i].result),
                                                     calls[i].result,
                                                     calls[i].jobId)]
    /\ UNCHANGED <<model, jobs, svars>>

CNext ==
    \/ \E i \in CallIds : CDoGenerate(i)
    \/ \E i \in CallIds : CSubmitResponse(i)
    \/ \E i \in CallIds : CStatusResponse(i)
    \/ \E i \in CallIds : CWaitElapsed(i)
    \/ \E i \in CallIds : CDownloadResponse(i)

SpecConcurrent == CInit /\ [][CNext]_vars

-----------------------------------------------------------------------------
(* A request that is answered with a non-2xx status and a JSON body *)

EInit ==
    /\ model \in PlainModels
    /\ options = [prompt |-> "a prompt", n |-> 1]
    /\ errorBody \in ErrorBodies
    /\ downloaded = NoDownload
    /\ pc = "submitting"
    /\ aborted = FALSE
    /\ attempt = 0
    /\ maxAttempts = 0
    /\ pollInterval = 0
    /\ warnings = <<>>
    /\ submitCount = 1
    /\ statusCount = 0
    /\ downloadCount = 0
    /\ waitCount = 0
    /\ lastRequest = Request("submit", SubmitUrl(model, options),
                             InputPayload(model, options),
                             SubmitHeaders(model, options))
    /\ lastResponse = NoResponse
    /\ jobId = ""
    /\ pollEntered = FALSE
    /\ terminalSeen = FALSE
    /\ outcome = Pending
    /\ calls = <<>>
    /\ jobs = <<>>

\* the failedResponseHandler of the request builds the APICallError, with
\* errorToMessage = extractErrorMessage
FailedResponseHandler ==
    /\ pc = "submitting"
    /\ pc' = "done"
    /\ lastResponse' = FailedResponse
    /\ outcome' = Failure("APICallError", extractErrorMessage(errorBody))
    /\ UNCHANGED <<model, options, aborted, attempt, maxAttempts, pollInterval,
                   warnings, submitCount, statusCount, downloadCount,
                   waitCount, lastRequest, jobId, pollEntered, terminalSeen,
                   calls, jobs, errorBody, downloaded>>

ENext == FailedResponseHandler

SpecError == EInit /\ [][ENext]_vars

-----------------------------------------------------------------------------
(* Claims *)

ExpectedTimeout ==
    Failure("Error",
            TimeoutMessage(model.modality,
                           PolicyMaxAttempts(model.modality, options),
                           PolicyPollInterval(model.modality, options)))

\* C1: in pollForCompletion of the image, video and transcription models the
\* number of status requests never exceeds maxAttempts (the caller's
\* maxPollAttempts, or the default); once maxAttempts responses have come
\* and none was COMPLETED or FAILED the call has failed with the timeout
\* error stating maxAttempts and maxAttempts * pollIntervalMillis / 1000,
\* and a call that saw no terminal status never returns a result.
C1_PollBound ==
    pollEntered =>
        /\ maxAttempts = PolicyMaxAttempts(model.modality, options)
        /\ statusCount <= maxAttempts
        /\ ~terminalSeen => outcome.kind # "success"
        /\ (pc = "done" /\ ~terminalSeen /\ waitCount = maxAttempts)
              => outcome = ExpectedTimeout

\* C1 witness: a call whose two allowed attempts were both answered with a
\* non-terminal status and that then timed out.
C1_Witness ==
    /\ pc = "done"
    /\ pollEntered
    /\ ~terminalSeen
    /\ maxAttempts = 2
    /\ waitCount = 2
    /\ statusCount = 2
    /\ outcome = ExpectedTimeout
    /\ pollInterval = 1500

IsPollingModality == model.modality \in {"video", "transcription"}

\* C2 as claimed: in a video or transcription call whose first terminal
\* status is the k-th status response, one submission and exactly k status
\* requests are issued, none after the terminal one, and a COMPLETED status
\* gives a successful result.
C2_Original ==
    (IsPollingModality /\ terminalSeen) =>
        /\ pc = "done"
        /\ submitCount = 1
        /\ statusCount = waitCount + 1
        /\ downloadCount = 0
        /\ lastResponse.status = "COMPLETED" => outcome.kind = "success"

\* C2 amended: as claimed, except that a COMPLETED status gives a successful
\* result for transcription always and for video exactly when the output
\* holds a video URL (a string video_url, result or url member, or a bare
\* string); otherwise the video call fails with the no-video-URL error.
C2_TerminalEndsPolling ==
    (IsPollingModality /\ terminalSeen) =>
        /\ pc = "done"
        /\ lastResponse.kind = "status"
        /\ lastResponse.status \in TerminalStatuses
        /\ submitCount = 1
        /\ statusCount = waitCount + 1
        /\ statusCount <= maxAttempts
        /\ downloadCount = 0
        /\ lastResponse.status = "COMPLETED" =>
            LET out == lastResponse.output
                hasUrl == \/ out.t = "string"
                          \/ /\ out.t = "object"
                             /\ \E k \in {"video_url", "result", "url"} :
                                    out.f[k].t = "string"
            IN  IF model.modality = "transcription" \/ hasUrl
                THEN outcome.kind = "success"
                ELSE /\ outcome.kind = "error"
                     /\ outcome.message = MalformedPrefix \o Stringify(out)

\* C2 witness: IN_PROGRESS, IN_PROGRESS, COMPLETED under the default policy:
\* one submission, three status requests, a result.
C2_Witness ==
    /\ model.modality = "video"
    /\ pc = "done"
    /\ terminalSeen
    /\ lastResponse.status = "COMPLETED"
    /\ maxAttempts = VideoDefaultMaxAttempts
    /\ submitCount = 1
    /\ statusCount = 3
    /\ outcome.kind = "success"

Cancelled == Failure("Error", AbortedMessage(model.modality))

\* C3: a status request is only ever issued while the abort signal is not
\* set, and an abort that is set when the wait between two polls ends makes
\* the next iteration fail with the "was aborted" error without a request.
C3_AbortBeforeRequest ==
    [][ /\ statusCount' # statusCount => ~aborted
        /\ (pc = "waiting" /\ pc' # "waiting" /\ aborted
               /\ attempt + 1 < maxAttempts)
              => (pc' = "done" /\ outcome' = Cancelled
                    /\ statusCount' = statusCount)
        /\ (pc = "submitting" /\ pollEntered' /\ aborted /\ 0 < maxAttempts')
              => (pc' = "done" /\ outcome' = Cancelled /\ statusCount' = 0)
      ]_vars

\* C3 witness: an abort during the wait after the first poll was observed
\* at the top of the second iteration.
C3_Witness ==
    /\ pc = "done"
    /\ waitCount = 1
    /\ aborted
    /\ outcome = Cancelled
    /\ statusCount = 1
    /\ maxAttempts >= 2

HasCountWarning ==
    \E i \in 1..Len(warnings) :
        /\ warnings[i].type = "unsupported"
        /\ warnings[i].feature \in {"n > 1", "multiple images (n > 1)"}

\* C4: an image or video call with n > 1 is not rejected for its count: it
\* submits one job, never more, a result holds exactly one output, and the
\* call carries an 'unsupported' warning that flags n > 1.
C4_CountDegrades ==
    (model.modality \in {"image", "video"} /\ options["n"] > 1) =>
        /\ submitCount <= 1
        /\ outcome.name = "InvalidArgumentError" =>
               /\ outcome.argument \in {"size", "aspectRatio"}
               /\ InvalidArgument(model.modelId, options) # ""
        /\ (pc # "start" /\ outcome.name # "InvalidArgumentError") =>
               /\ submitCount = 1
               /\ HasCountWarning
               /\ Cardinality({i \in 1..Len(warnings) :
                                   warnings[i].feature
                                       \in {"n > 1",
                                            "multiple images (n > 1)"}}) = 1
        /\ outcome.kind = "success" => outcome.outputs = 1

\* C4 witness: an image call with n = 2 that returned its one image.
C4_Witness ==
    /\ model.modality = "image"
    /\ options["n"] = 2
    /\ outcome.kind = "success"
    /\ submitCount = 1
    /\ HasCountWarning

\* C5 as claimed: whatever the modality and the family, the input object of
\* the submitted body has neither a maxPollAttempts nor a pollIntervalMillis
\* key.
C5_Original ==
    lastRequest.kind = "submit" =>
        DOMAIN lastRequest.input \cap PollingOptionKeys = {}

IsStatusResponse(status) ==
    lastResponse.kind = "status" /\ lastResponse.status = status

\* C6: when a status response of an image or video call carries FAILED the
\* call has failed with exactly '<Modality> generation failed: <error>',
\* <error> being the remote error or 'Unknown error' when that is absent or
\* empty; that response is the last request of the call and nothing is
\* downloaded.
C6_FailedMessage ==
    (model.modality \in {"image", "video"} /\ IsStatusResponse("FAILED")) =>
        LET e == lastResponse.error
            text == IF e.t = "undefined" \/ e.s = "" THEN "Unknown error"
                    ELSE e.s
            modality == IF model.modality = "image" THEN "Image" ELSE "Video"
        IN  /\ pc = "done"
            /\ outcome.kind = "error"
            /\ outcome.message = modality \o " generation failed: " \o text
            /\ downloadCount = 0
            /\ statusCount = waitCount + 1

\* C6 witness: FAILED with error 'GPU out of memory' on the second poll of a
\* video call.
C6_Witness ==
    /\ model.modality = "video"
    /\ IsStatusResponse("FAILED")
    /\ lastResponse.error = JString("GPU out of memory")
    /\ statusCount = 2
    /\ outcome.message = "Video generation failed: GPU out of memory"

\* an output without any string a result could be read from
NoResultField(out) ==
    /\ out.t # "string"
    /\ \A k \in OutKeys : out.f[k].t # "string"

\* C7 as claimed: when a status response of an image or video call carries
\* COMPLETED and its output has no recognizable result field, the call has
\* failed with an error that embeds the raw output; it is not polling on.
C7_Original ==
    (/\ model.modality \in {"image", "video"}
     /\ IsStatusResponse("COMPLETED")
     /\ NoResultField(lastResponse.output)) =>
        /\ pc = "done"
        /\ outcome.kind = "error"
        /\ outcome # ExpectedTimeout

\* C8: the video extractor returns the string video_url of an object
\* output, else its string result, else its string url, and a bare string
\* output itself; so { video_url: u } and the bare string u give the same
\* URL, and of several members the first in that order wins.
C8_ExtractionOrder ==
    /\ \A u \in {UrlX, UrlY} :
          extractVideoUrl(Obj([video_url |-> JString(u)]))
              = extractVideoUrl(BareString(u))
    /\ (model.modality = "video" /\ IsStatusResponse("COMPLETED")) =>
        LET out == lastResponse.output
            str(k) == out.t = "object" /\ out.f[k].t = "string"
            returned(u) == /\ outcome.kind = "success"
                           /\ outcome.value = u
        IN  /\ str("video_url") => returned(out.f["video_url"].s)
            /\ (~str("video_url") /\ str("result"))
                  => returned(out.f["result"].s)
            /\ (~str("video_url") /\ ~str("result") /\ str("url"))
                  => returned(out.f["url"].s)
            /\ out.t = "string" => returned(out.s)

\* C8 witness: an output with video_url, result and url set to different
\* strings gave the video_url.
C8_Witness ==
    /\ model.modality = "video"
    /\ IsStatusResponse("COMPLETED")
    /\ lastResponse.output.f["video_url"] = JString(UrlX)
    /\ lastResponse.output.f["result"] = JString(UrlY)
    /\ lastResponse.output.f["url"] = JString(UrlY)
    /\ outcome.kind = "success"
    /\ outcome.value = UrlX

\* C9 as claimed: when the response to a submission to the synchronous
\* endpoint already carries COMPLETED or FAILED, no status request is
\* issued for the job.
C9_Original ==
    (/\ lastResponse.kind = "submit"
     /\ lastResponse.status \in TerminalStatuses
     /\ EndsWith(SubmitUrl(model, options), <<"/", "runsync">>)) =>
        statusCount = 0

\* the submission url of the claim: the base without its trailing slash,
\* as it is when it ends in /run or /runsync, else with /run appended
ClaimedSubmitUrl ==
    LET b == IF model.baseURL[Len(model.baseURL)] = "/"
             THEN SubSeq(model.baseURL, 1, Len(model.baseURL) - 1)
             ELSE model.baseURL
        last == b[Len(b)]
    IN  IF b[Len(b) - 1] = "/" /\ last \in {"run", "runsync"}
        THEN b ELSE b \o <<"/", "run">>

\* C10 as claimed: every model submits to the url chosen that way.
C10_Original ==
    lastRequest.kind = "submit" =>
        /\ lastRequest.url = ClaimedSubmitUrl
        /\ submitCount = 1

\* C10 amended: the video and transcription models submit to the url chosen
\* that way; the image model always appends /runsync to its base url (the
\* configured one as it is, or its LoRA variant); a call issues exactly one
\* submission request, to that url.
C10_SubmitUrl ==
    /\ submitCount <= 1
    /\ pc \notin {"start", "done"} => submitCount = 1
    /\ lastRequest.kind = "submit" =>
        /\ submitCount = 1
        /\ model.modality \in {"video", "transcription"} =>
              lastRequest.url = ClaimedSubmitUrl
        /\ model.modality = "image" =>
              lastRequest.url =
                  ImageEffectiveBaseURL(model, options) \o <<"/", "runsync">>

\* C10 witness: a video model configured with .../run/ has submitted to
\* .../run.
C10_Witness ==
    /\ model.modality = "video"
    /\ model.baseURL = Endpoint \o <<"/", "run", "/">>
    /\ pc = "submitting"
    /\ submitCount = 1
    /\ lastRequest.url = Endpoint \o <<"/", "run">>

\* the base a job was submitted to: the submission url without its /run or
\* /runsync suffix
SubmittedBase ==
    LET u == SubmitUrl(model, options) IN SubSeq(u, 1, Len(u) - 2)

\* C11 as claimed: every status request goes to {base}/status/{id}, id being
\* the job id the submission returned and base the endpoint the job was
\* submitted to without its /run or /runsync suffix, also when the configured
\* baseURL itself ends in /run or /runsync.
C11_Original ==
    lastRequest.kind = "status" =>
        lastRequest.url = SubmittedBase \o <<"/", "status", "/", jobId>>

IsLoraRequest ==
    LET ro == options["runpod"] IN
    /\ model.modelId = "qwen/qwen-image-edit-2511"
    /\ "loras" \in DOMAIN ro
    /\ ro["loras"].t = "array"
    /\ ro["loras"].items # <<>>

\* the base of the url of the latest submission or status request
RequestBase ==
    LET u == lastRequest.url IN
    IF lastRequest.kind = "submit" THEN SubSeq(u, 1, Len(u) - 2)
    ELSE SubSeq(u, 1, Len(u) - 4)

LoraBase ==
    CASE model.baseURL = QwenEndpoint -> QwenLoraEndpoint
      [] model.baseURL = QwenLoraEndpoint ->
            <<"https://api.runpod.ai/v2", "/", "qwen-image-edit-2511-lora-lora">>
      [] OTHER -> model.baseURL

C13_NoRetry ==
    LET failed == /\ lastRequest.kind = "status"
                  /\ \/ lastResponse.kind = "failure"
                     \/ /\ lastResponse.kind = "status"
                        /\ model.modality = "image"
                        /\ lastResponse.status \notin
                              {"COMPLETED", "IN_QUEUE", "IN_PROGRESS", "FAILED"}
    IN  failed =>
            /\ pc = "done"
            /\ outcome.kind = "error"
            /\ outcome.name = "APICallError"
            /\ statusCount = attempt + 1
            /\ waitCount = attempt
            /\ downloadCount = 0

\* C13 witness: the second status request of a call with the default 120
\* attempts failed and the call ended with two status requests issued.
C13_Witness ==
    /\ lastRequest.kind = "status"
    /\ lastResponse.kind = "failure"
    /\ maxAttempts = VideoDefaultMaxAttempts
    /\ statusCount = 2
    /\ pc = "done"
    /\ outcome.name = "APICallError"

\* C14 as claimed: when the abort signal is already set as doGenerate is
\* entered, the call fails and no submission request is issued.
C14_Original ==
    [][ (pc = "start" /\ aborted /\ pc' # "start") =>
            /\ pc' = "done"
            /\ outcome'.kind = "error"
            /\ submitCount' = 0
      ]_vars

RequestCount == submitCount + statusCount + downloadCount

\* C15: a call issues one submission POST, then status GETs for the job id
\* its submission returned, then at most one binary GET of the result url
\* (image and speech only); it issues no request of another kind, a remote
\* cancel in particular, and the step that observes the cancellation issues
\* no request.
C15_RequestsConfined ==
    [][ /\ lastRequest'.kind \in {"none", "submit", "status", "download"}
        /\ submitCount' <= 1
        /\ downloadCount' <= 1
        /\ RequestCount' \in {RequestCount, RequestCount + 1}
        /\ submitCount' > submitCount =>
              (RequestCount = 0 /\ lastRequest'.kind = "submit")
        /\ statusCount' > statusCount =>
              /\ model.modality \in {"image", "video", "transcription"}
              /\ submitCount = 1 /\ downloadCount = 0
              /\ lastRequest'.kind = "status"
              /\ EndsWith(lastRequest'.url, <<"/", "status", "/", jobId'>>)
              /\ pc = "submitting" => jobId' = lastResponse'.id
              /\ pc # "submitting" => jobId' = jobId
        /\ downloadCount' > downloadCount =>
              /\ model.modality \in {"image", "speech"}
              /\ submitCount = 1
              /\ lastRequest'.kind = "download"
              /\ model.modality = "image" =>
                    lastResponse'.status = "COMPLETED"
        /\ RequestCount' = RequestCount => lastRequest' = lastRequest
        /\ (pc # "done" /\ pc' = "done"
              /\ outcome'.message \in {"Image generation was aborted",
                                       "Video generation was aborted",
                                       "Transcription was aborted",
                                       "This operation was aborted"})
              => (aborted /\ RequestCount' = RequestCount)
        /\ pc = "done" => RequestCount' = RequestCount
      ]_vars

\* C15 witness: an image call whose abort was seen at the top of its second
\* poll iteration: one submission and one status request, nothing after.
C15_Witness ==
    /\ model.modality = "image"
    /\ pc = "done"
    /\ aborted
    /\ outcome = Cancelled
    /\ submitCount = 1
    /\ statusCount = 1
    /\ downloadCount = 0
    /\ lastRequest.kind = "status"

\* the outcome of a call that polls the job named id alone: the job answers
\* its status requests as its fate says
RECURSIVE OutcomeAlone(_, _, _, _)
OutcomeAlone(o, id, fate, polled) ==
    LET maxA == o["runpod"]["maxPollAttempts"]
        seconds == ToString((maxA * o["runpod"]["pollIntervalMillis"]) \div 1000)
        subject == CASE model.modality = "image" -> "Image generation"
                     [] model.modality = "video" -> "Video generation"
                     [] model.modality = "transcription" -> "Transcription"
        answer == IF polled < fate.pending THEN "IN_PROGRESS"
                  ELSE IF fate.final.kind = "failure" THEN "failure"
                  ELSE fate.final.status
        out == fate.final.output
    IN  IF polled >= maxA
        THEN Failure("Error", subject \o " timed out after " \o ToString(maxA)
                                  \o " attempts (" \o seconds \o "s)")
        ELSE CASE answer = "IN_PROGRESS" -> OutcomeAlone(o, id, fate, polled + 1)
               [] answer = "failure" -> Failure("APICallError", "status")
               [] answer = "FAILED" ->
                    Failure("Error", subject \o " failed: " \o fate.final.error.s)
               [] answer = "COMPLETED" ->
                    CASE model.modality = "image" ->
                            Success("bytes of " \o out.f["result"].s,
                                    out.f["result"].s, id)
                      [] model.modality = "video" ->
                            Success(out.f["video_url"].s, "", id)
                      [] model.modality = "transcription" ->
                            Success(out.f["text"].s, "", id)

\* C16: however two or more doGenerate calls on one model instance
\* interleave, every status request of a call names the job its own
\* submission created, the call keeps its own attempt counter, warnings and
\* poll policy, only its own requests poll its job, and it ends as it would
\* have ended alone with that job.
C16_CallsIndependent ==
    \A i \in CallIds :
        LET c == calls[i]
            o == ConcurrentOptions(i)
            submitted == c.pc \notin {"start", "submitting"}
        IN  /\ c.o = o
            /\ submitted =>
                  /\ c.job \in 1..Len(jobs)
                  /\ c.jobId = "job-" \o ToString(c.job)
                  /\ \A k \in CallIds : (k # i /\ calls[k].job # 0)
                                           => calls[k].job # c.job
                  /\ Len(c.warnings) = (IF model.modality \in {"image", "video"}
                                           /\ o["n"] > 1 THEN 1 ELSE 0)
                  /\ c.statusCount <= o["runpod"]["maxPollAttempts"]
                  /\ c.pc \in {"polling", "waiting"}
                        => c.statusCount = c.attempt + 1
                  /\ jobs[c.job].polls
                        = c.statusCount - (IF c.pc = "polling" THEN 1 ELSE 0)
            /\ c.statusCount > 0 =>
                  c.url = model.baseURL \o <<"/", "status", "/", c.jobId>>
            /\ c.pc = "done" =>
                  c.outcome = OutcomeAlone(o, c.jobId, jobs[c.job].fate, 0)

\* C16 witness: the second call submitted first; the first call polled its
\* job twice while the second polled its own, and the two ended differently.
C16_Witness ==
    /\ calls[1].pc = "done"
    /\ calls[2].pc = "done"
    /\ calls[1].job = 2
    /\ calls[2].job = 1
    /\ calls[1].statusCount = 2
    /\ calls[1].outcome.kind = "success"
    /\ calls[2].statusCount = 1
    /\ calls[2].outcome.kind = "error"

\* a reference file as the payload carries it: its url, or its data as a
\* data: URL of its media type
ReferenceOf(file) ==
    IF file.type = "url" THEN file.url
    ELSE "data:" \o file.mediaType \o ";base64," \o file.data

\* the submitted payload of an image call of the family whose ids contain
\* one of the given texts
IsSubmittedBy(texts) ==
    /\ model.modality = "image"
    /\ lastRequest.kind = "submit"
    /\ \E t \in texts : Includes(model.modelId, t)

\* C17: the payload Flux Kontext submits has the first reference file as its
\* image whenever the call has reference files, whatever
\* providerOptions.runpod.image is; with no reference files it has
\* providerOptions.runpod.image when that is given, and no image otherwise.
C17_KontextImage ==
    IsSubmittedBy({"kontext"}) =>
        LET files == Get(options, "files", <<>>)
            ro == Get(options, "runpod", EmptyObject)
            p == lastRequest.input
        IN  IF Len(files) > 0
            THEN /\ Has(p, "image")
                 /\ p["image"] = ReferenceOf(files[1])
                 /\ p["image"] # LegacyImage
            ELSE IF Has(ro, "image")
            THEN Has(p, "image") /\ p["image"] = ro["image"]
            ELSE ~Has(p, "image")

\* C17 witness: Flux Kontext submitted a data file as its image although
\* providerOptions.runpod.image was given.
C17_Witness ==
    /\ IsSubmittedBy({"kontext"})
    /\ Get(options, "files", <<>>) = <<DataFile, UrlFile>>
    /\ Has(options["runpod"], "image")
    /\ lastRequest.input["image"] = "data:image/png;base64,AAAA"

\* the ids of the multi-reference families contain one of these texts
MultiReferenceFamilies ==
    {"p-image-edit", "nano-banana-pro", "qwen-image-edit-2511"}

C19_Original ==
    (/\ model.modality = "image"
     /\ lastRequest.kind = "submit"
     /\ Len(Get(options, "files", <<>>)) > 0) =>
        LET p == lastRequest.input
        IN  /\ Has(p, "image") => p["image"] # LegacyImage
            /\ Has(p, "images") => p["images"] # LegacyImages

\* C20 (as stated): in the payload of every image and video family, a key
\* that both a typed call field and providerOptions.runpod supply has the
\* value of providerOptions.runpod.
C20_Original ==
    (model.modality \in {"image", "video"} /\ lastRequest.kind = "submit") =>
        LET ro == Get(options, "runpod", EmptyObject)
            p == lastRequest.input
        IN  \A k \in {"seed", "prompt"} :
                (Has(options, k) /\ Has(ro, k)) => (Has(p, k) /\ p[k] = ro[k])

\* the image families with a fixed catalog of sizes and aspect ratios
FixedCatalogIds ==
    { "qwen/qwen-image", "black-forest-labs/flux-1-schnell",
      "black-forest-labs/flux-1-kontext-dev", "qwen/qwen-image-edit-2511",
      "qwen/qwen-image-edit-2511-lora" }

\* the catalog, as the caller writes its sizes
CatalogSizes ==
    { <<"1328", "x", "1328">>, <<"1472", "x", "1140">>, <<"1140", "x", "1472">>,
      <<"512", "x", "512">>, <<"768", "x", "768">>, <<"1024", "x", "1024">>,
      <<"1536", "x", "1536">>, <<"2048", "x", "2048">>, <<"4096", "x", "4096">>,
      <<"512", "x", "768">>, <<"768", "x", "512">>, <<"1024", "x", "768">>,
      <<"768", "x", "1024">> }

CatalogAspectRatios == {"1:1", "4:3", "3:4"}

CatalogSizesText ==
    "1328x1328, 1472x1140, 1140x1472, 512x512, 768x768, 1024x1024, "
        \o "1536x1536, 2048x2048, 4096x4096, 512x768, 768x512, 1024x768, "
        \o "768x1024"

\* the size of the call is given and not of the catalog
SizeOffCatalog ==
    Has(options, "size") /\ options["size"] \notin CatalogSizes

\* the call has no size, and an aspect ratio that is not of the catalog
AspectRatioOffCatalog ==
    /\ ~Has(options, "size")
    /\ Has(options, "aspectRatio")
    /\ options["aspectRatio"] \notin CatalogAspectRatios

\* C21: a call of a fixed-catalog image family with a size outside the
\* catalog, or with no size and an aspect ratio outside the catalog, ends
\* at once with an InvalidArgumentError whose message names the value and
\* lists the accepted values, and no request is ever issued for it.
C21_InvalidArgumentBeforeRequest ==
    (/\ model.modality = "image"
     /\ model.modelId \in FixedCatalogIds
     /\ pc # "start") =>
        /\ SizeOffCatalog =>
              /\ pc = "done"
              /\ outcome.name = "InvalidArgumentError"
              /\ outcome.argument = "size"
              /\ outcome.message
                    = "Size " \o options["size"][1] \o "x" \o options["size"][3]
                        \o " is not supported by Runpod. Supported sizes: "
                        \o CatalogSizesText
        /\ AspectRatioOffCatalog =>
              /\ pc = "done"
              /\ outcome.name = "InvalidArgumentError"
              /\ outcome.argument = "aspectRatio"
              /\ outcome.message
                    = "Aspect ratio " \o options["aspectRatio"]
                        \o " is not supported by Runpod. "
                        \o "Supported aspect ratios: 1:1, 4:3, 3:4"
        /\ (SizeOffCatalog \/ AspectRatioOffCatalog) =>
              /\ submitCount = 0
              /\ statusCount = 0
              /\ downloadCount = 0
              /\ lastRequest = NoRequest

\* C21 witness: Flux Kontext rejected the size 1328x1329 without a request.
C21_Witness ==
    /\ model.modelId = "black-forest-labs/flux-1-kontext-dev"
    /\ Get(options, "size", <<>>) = <<"1328", "x", "1329">>
    /\ pc = "done"
    /\ outcome.name = "InvalidArgumentError"
    /\ submitCount = 0

\* the image families that submit a size
DimensionBasedIds == FixedCatalogIds \cup {"alibaba/wan-2.6"}

\* the size a payload carries, with its separator mapped back
SizeMappedBack(size) ==
    IF Len(size) = 3 /\ size[2] = "*" THEN <<size[1], "x", size[3]>> ELSE size

\* C22: a call of a dimension-based family that is submitted with a size
\* WxH carries the size W*H in its payload, with W and H as the caller
\* wrote them; regular Flux carries width W and height H as numbers; a
\* video call carries its resolution the same way.  Mapping the separator
\* back gives the size of the caller.  (providerOptions.runpod sets no
\* size of its own in these calls.)
C22_SizeRoundTrip ==
    /\ (/\ model.modality = "image"
        /\ model.modelId \in DimensionBasedIds
        /\ lastRequest.kind = "submit"
        /\ Has(options, "size")) =>
           LET p == lastRequest.input
               w == options["size"][1]
               h == options["size"][3]
           IN  IF model.modelId = "black-forest-labs/flux-1-schnell"
               THEN /\ Has(p, "width") /\ ToString(p["width"]) = w
                    /\ Has(p, "height") /\ ToString(p["height"]) = h
               ELSE /\ Has(p, "size")
                    /\ p["size"] = <<w, "*", h>>
                    /\ SizeMappedBack(p["size"]) = options["size"]
    /\ (/\ model.modality = "video"
        /\ lastRequest.kind = "submit"
        /\ Has(options, "resolution")) =>
           LET p == lastRequest.input
           IN  /\ Has(p, "size")
               /\ p["size"] = <<options["resolution"][1], "*",
                                options["resolution"][3]>>
               /\ SizeMappedBack(p["size"]) = options["resolution"]

\* C22 witness: Qwen Image submitted the size 1024x768 as 1024*768.
C22_Witness ==
    /\ model.modelId = "qwen/qwen-image"
    /\ lastRequest.kind = "submit"
    /\ Get(options, "size", <<>>) = <<"1024", "x", "768">>
    /\ lastRequest.input["size"] = <<"1024", "*", "768">>

\* the pixel counts the pixel-budget family is said to accept
MinPixels == 768 * 768
MaxPixels == 1280 * 1280

\* the pixel count of the size of the call
PixelsOf(size) ==
    (CHOOSE w \in 0..4096 : ToString(w) = size[1])
        * (CHOOSE h \in 0..4096 : ToString(h) = size[3])

\* C23 (as stated): a call of alibaba/wan-2.6 with a size of fewer than
\* 768*768 or more than 1280*1280 pixels ends with an InvalidArgumentError,
\* and one with a size of a pixel count from 768*768 to 1280*1280 is
\* accepted and submitted.
C23_Original ==
    (/\ model.modality = "image"
     /\ model.modelId = "alibaba/wan-2.6"
     /\ Has(options, "size")
     /\ pc # "start") =>
        IF PixelsOf(options["size"]) \in MinPixels..MaxPixels
        THEN outcome.name # "InvalidArgumentError" /\ submitCount = 1
        ELSE /\ pc = "done"
             /\ outcome.name = "InvalidArgumentError"
             /\ submitCount = 0

\* C24 (as stated): a call of alibaba/wan-2.6 without size and aspect ratio
\* submits the size 1280*1280.
C24_Original ==
    (/\ model.modality = "image"
     /\ model.modelId = "alibaba/wan-2.6"
     /\ ~Has(options, "size")
     /\ ~Has(options, "aspectRatio")
     /\ lastRequest.kind = "submit") =>
        /\ Has(lastRequest.input, "size")
        /\ lastRequest.input["size"] = <<"1280", "*", "1280">>

\* C25 (as stated): a result the image, video or transcription model
\* returns holds exactly one output, comes with the warnings of the call,
\* and reports in its provider metadata the job id of the submission
\* response, whether the submission response was already COMPLETED or the
\* job was polled.
C25_Original ==
    (model.modality \in {"image", "video", "transcription"}
        /\ outcome.kind = "success") =>
        /\ outcome.outputs = 1
        /\ Len(warnings)
              = (IF model.modality \in {"image", "video"} /\ options["n"] > 1
                 THEN 1 ELSE 0)
                + (IF model.modality = "image" /\ Has(options, "mask")
                   THEN 1 ELSE 0)
        /\ outcome.jobId = (IF statusCount = 0 THEN lastResponse.id ELSE jobId)

\* C26 (as stated): an image call whose submission response has the status
\* FAILED ends with 'Image generation failed: ' followed by the error of
\* the response, or by 'Unknown error' when the response has none, and
\* issues neither a status request nor a download.
C26_Original ==
    (/\ model.modality = "image"
     /\ lastResponse.kind = "submit"
     /\ lastResponse.status = "FAILED") =>
        /\ pc = "done"
        /\ outcome.kind = "error"
        /\ outcome.message
              = "Image generation failed: "
                  \o (IF lastResponse.error.t = "string"
                         /\ lastResponse.error.s # ""
                      THEN lastResponse.error.s ELSE "Unknown error")
        /\ statusCount = 0
        /\ downloadCount = 0

\* the error string of the body, as it was sent
RECURSIVE RawErrorString(_)
RawErrorString(toks) ==
    IF toks = <<>> THEN ""
    ELSE RawErrorString(SubSeq(toks, 1, Len(toks) - 1)) \o toks[Len(toks)]

\* toks[i..j] is a JSON object of scalar members whose message is a
\* non-empty string
IsDocumentWithMessage(toks, i, j) ==
    /\ i < j
    /\ toks[i] = "{"
    /\ toks[j] = "}"
    /\ \A k \in (i + 1)..(j - 1) :
          toks[k] \in {MessageMember, EmptyMessageMember, NumberMessageMember}
    /\ \E k \in (i + 1)..(j - 1) :
          /\ toks[k] = MessageMember
          /\ \A m \in (k + 1)..(j - 1) : toks[m] = MessageMember

\* the error string holds a JSON document with a message
HasEmbeddedMessage(toks) ==
    \E i, j \in 1..Len(toks) : IsDocumentWithMessage(toks, i, j)

\* the error string ends with a JSON document with a message that begins at
\* the last '{' of the string
EndsWithMessageDocument(toks) ==
    \E i \in 1..Len(toks) :
        /\ IsDocumentWithMessage(toks, i, Len(toks))
        /\ \A k \in (i + 1)..Len(toks) : toks[k] # "{"

TopLevelMessage ==
    errorBody.message.t = "string" /\ errorBody.message.toks # <<>>

ErrorGiven == errorBody.error.t = "string" /\ errorBody.error.toks # <<>>

IgnoredSettings ==
    CASE model.modality = "image" ->
            (IF options["n"] > 1 THEN {"multiple images (n > 1)"} ELSE {})
            \cup (IF Has(options, "mask") THEN {"mask"} ELSE {})
      [] model.modality = "video" ->
            (IF options["n"] > 1 THEN {"n > 1"} ELSE {})
      [] model.modality = "speech" ->
            (IF Has(options, "outputFormat") /\ options["outputFormat"] # "wav"
             THEN {"outputFormat"} ELSE {})
            \cup ({"instructions", "speed", "language"} \cap DOMAIN options)
      [] OTHER -> {}

\* what the i-th warning of the call is about
WarningSubject(i) ==
    IF model.modality = "speech" THEN warnings[i].setting
    ELSE warnings[i].feature

IgnoredKeys ==
    {"n", "mask", "outputFormat", "instructions", "speed", "language"}

\* the options of the call without its ignored settings
WithoutIgnored ==
    LET kept == [k \in DOMAIN options \ IgnoredKeys |-> options[k]]
    IN  IF model.modality = "speech" THEN kept ELSE Spread(kept, [n |-> 1])

\* C28: a call with an unsupported count, a mask or an unsupported speech
\* setting is submitted all the same, with exactly one warning for each of
\* them; its payload holds none of the ignored values, and its request is
\* the request of the same call without them.  Only a size or an aspect
\* ratio off the catalog keeps such a call from being submitted.
C28_WarningsOnly ==
    /\ lastRequest.kind = "submit" =>
          /\ Len(warnings) = Cardinality(IgnoredSettings)
          /\ \A s \in IgnoredSettings :
                \E i \in 1..Len(warnings) : WarningSubject(i) = s
          /\ DOMAIN lastRequest.input \cap IgnoredKeys = {}
          /\ lastRequest.url = SubmitUrl(model, WithoutIgnored)
          /\ lastRequest.input = InputPayload(model, WithoutIgnored)
    /\ (pc # "start" /\ IgnoredSettings # {}) =>
          \/ submitCount = 1
          \/ /\ outcome.name = "InvalidArgumentError"
             /\ outcome.argument \in {"size", "aspectRatio"}

\* C28 witness: an image call with a mask and n = 2 returned its image
\* with two warnings.
C28_Witness ==
    /\ model.modality = "image"
    /\ Has(options, "mask")
    /\ options["n"] = 2
    /\ Len(warnings) = 2
    /\ outcome.kind = "success"

-----------------------------------------------------------------------------
(* C29: the bytes of an image or speech result *)

\* the url a binary GET may be issued for once `resp` has been delivered,
\* "" when none: the result url of a COMPLETED image answer, the audio_url
\* of a speech answer
ResultUrlOf(resp) ==
    IF model.modality = "image"
    THEN (IF resp.status = "COMPLETED" /\ resp.output.t = "object"
          THEN (IF Truthy(resp.output.f["result"])
                THEN resp.output.f["result"].s
                ELSE IF Truthy(resp.output.f["image_url"])
                THEN resp.output.f["image_url"].s
                ELSE "")
          ELSE "")
    ELSE LET a == IF resp.output.t # "undefined"
                  THEN resp.output.f["audio_url"] ELSE resp.audio_url
         IN  IF a.t = "string" THEN a.s ELSE ""

\* a successful image or speech result carries the body of the one GET of
\* the result url, and a speech success is a POST followed by a GET
BytesOfOneGet ==
    (model.modality \in {"image", "speech"} /\ outcome'.kind = "success") =>
        /\ downloadCount' = 1
        /\ lastRequest'.kind = "download"
        /\ downloaded' \in DownloadBodies
        /\ outcome'.value = downloaded'
        /\ lastRequest'.url = <<ResultUrlOf(lastResponse')>>
        /\ model.modality = "speech" =>
            /\ submitCount' = 1
            /\ statusCount' = 0

\* a failed GET ends the call with the download error and without a result
DownloadFailureThrows ==
    (pc = "downloading" /\ lastResponse'.kind = "failure") =>
        /\ pc' = "done"
        /\ outcome'.kind = "error"
        /\ downloaded' = NoDownload
        /\ IF model.modality = "speech"
           THEN /\ outcome'.name = "Error"
                /\ outcome'.message = "Failed to download generated audio"
           ELSE /\ outcome'.name = "APICallError"
                /\ outcome'.message = "download"

\* C29 as stated: for image and speech the bytes of a successful result are
\* the bytes of one GET of the extracted result url, the GET is issued only
\* once an answer with status COMPLETED has been delivered, and a failed
\* GET ends the call with a download error and no result; a speech success
\* is a POST followed by a GET.
C29_Original ==
    [][/\ BytesOfOneGet
       /\ DownloadFailureThrows
       /\ downloadCount' > downloadCount =>
            /\ lastResponse'.status = "COMPLETED"
            /\ ResultUrlOf(lastResponse') # ""
            /\ lastRequest'.url = <<ResultUrlOf(lastResponse')>>]_vars

\* C29, amended: as above, except that the GET of a speech call is issued
\* once the POST has been answered with a body that carries a non-empty
\* audio_url, whatever the status member of that body is; the GET of an
\* image call is issued only once an answer with status COMPLETED and a
\* result url has been delivered.
C29_DownloadedBytes ==
    [][/\ BytesOfOneGet
       /\ DownloadFailureThrows
       /\ downloadCount' > downloadCount =>
            /\ model.modality \in {"image", "speech"}
            /\ model.modality = "image" => lastResponse'.status = "COMPLETED"
            /\ model.modality = "speech" => lastResponse'.kind = "submit"
            /\ ResultUrlOf(lastResponse') # ""
            /\ lastRequest'.url = <<ResultUrlOf(lastResponse')>>]_vars

\* a speech answer without a status has been followed by the GET of its
\* audio_url, and the call returned the bytes of that GET
C29_Witness ==
    /\ model.modality = "speech"
    /\ outcome.kind = "success"
    /\ lastResponse.status = ""
    /\ downloadCount = 1
    /\ outcome.value = downloaded
    /\ downloaded = "bytes-b"

-----------------------------------------------------------------------------
(* C30: the payload of the default image family *)

\* the texts whose presence in a model id selects a specific payload family
FamilyMarkers ==
    {"flux", "black-forest-labs", "pruna", "p-image", "nano-banana-pro",
     "qwen-image-edit-2511", "wan-2"}

\* the submitted payload of an image call whose model id matches no
\* specific family
IsSubmittedByDefaultFamily ==
    /\ model.modality = "image"
    /\ lastRequest.kind = "submit"
    /\ \A t \in FamilyMarkers : ~Includes(model.modelId, t)

-----------------------------------------------------------------------------
(* C31: the families that take an aspect ratio as it is *)

\* an image call of a model id that contains pruna, p-image or
\* nano-banana-pro
IsFreeFormCall ==
    /\ model.modality = "image"
    /\ \E t \in {"pruna", "p-image", "nano-banana-pro"} :
          Includes(model.modelId, t)

\* a Pruna text-to-image call
IsPrunaTextToImage ==
    /\ model.modality = "image"
    /\ Includes(model.modelId, "pruna") \/ Includes(model.modelId, "p-image")
    /\ ~Includes(model.modelId, "edit")

\* no InvalidArgumentError ends a call of these families, and width and
\* height are in the payload of Pruna text-to-image only, as
\* providerOptions.runpod has them, next to the aspect_ratio custom
FreeFormNeverRejected ==
    IsFreeFormCall =>
        /\ outcome.name # "InvalidArgumentError"
        /\ lastRequest.kind = "submit" =>
            LET p == lastRequest.input
                ro == Get(options, "runpod", EmptyObject)
            IN  /\ Has(p, "aspect_ratio")
                /\ \A k \in {"width", "height"} :
                      Has(p, k) =>
                          /\ IsPrunaTextToImage
                          /\ p["aspect_ratio"] = "custom"
                          /\ Has(ro, k) /\ p[k] = ro[k]

\* C31 as stated: in a call of a model id that contains pruna, p-image or
\* nano-banana-pro the aspectRatio of the call is the aspect_ratio of the
\* submitted payload, '1:1' when the call has none; no InvalidArgumentError
\* is raised; width and height of providerOptions.runpod are in the payload
\* of Pruna text-to-image only when aspect_ratio is custom.
C31_Original ==
    /\ FreeFormNeverRejected
    /\ (IsFreeFormCall /\ lastRequest.kind = "submit") =>
          lastRequest.input["aspect_ratio"]
              = Get(options, "aspectRatio", "1:1")

-----------------------------------------------------------------------------
(* C32: the custom width and height of Pruna text-to-image *)

\* the documented range and step of a custom width or height
MinCustomDimension == 256
MaxCustomDimension == 1440
CustomDimensionStep == 16

\* C32 as stated: the width and the height of every payload Pruna
\* text-to-image submits with the aspect_ratio custom lie in 256..1440 and
\* are multiples of 16.
C32_Original ==
    (/\ IsPrunaTextToImage
     /\ lastRequest.kind = "submit"
     /\ lastRequest.input["aspect_ratio"] = "custom") =>
        \A k \in {"width", "height"} :
            Has(lastRequest.input, k) =>
                /\ lastRequest.input[k] >= MinCustomDimension
                /\ lastRequest.input[k] <= MaxCustomDimension
                /\ lastRequest.input[k] % CustomDimensionStep = 0

-----------------------------------------------------------------------------
(* C33: the audio of a transcription submission *)

\* the position of a character in the base64 alphabet, 0 for the padding
Base64Index(c) ==
    IF c = "=" THEN 0
    ELSE (CHOOSE i \in 1..64 : Base64Alphabet[i] = c) - 1

\* the bytes a base64 text stands for
RECURSIVE Base64Decode(_)
Base64Decode(chars) ==
    IF Len(chars) < 4 THEN <<>>
    ELSE LET n == Base64Index(chars[1]) * 262144
                    + Base64Index(chars[2]) * 4096
                    + Base64Index(chars[3]) * 64 + Base64Index(chars[4])
             group == << n \div 65536, (n \div 256) % 256, n % 256 >>
             kept == IF chars[3] = "=" THEN 1
                     ELSE IF chars[4] = "=" THEN 2 ELSE 3
         IN  SubSeq(group, 1, kept)
                \o Base64Decode(SubSeq(chars, 5, Len(chars)))

\* C33: the payload a transcription call submits has exactly one of audio
\* and audio_base64: audio, equal to providerOptions.runpod.audio, when that
\* is a non-empty string; else audio_base64, which is the audio of the call
\* when that is a string and the base64 text of its bytes when it is a
\* Uint8Array.
C33_OneAudioMember ==
    (model.modality = "transcription" /\ lastRequest.kind = "submit"
        /\ Has(options, "audio")) =>
        LET p == lastRequest.input
            ro == Get(options, "runpod", EmptyObject)
            given == /\ Has(ro, "audio")
                     /\ ro["audio"] \notin {JString(""), JNumber("7")}
        IN  /\ Has(p, "audio") # Has(p, "audio_base64")
            /\ given => Has(p, "audio") /\ JString(p["audio"]) = ro["audio"]
            /\ ~given =>
                /\ Has(p, "audio_base64")
                /\ Len(p["audio_base64"]) % 4 = 0
                /\ IF options["audio"].t = "string"
                   THEN p["audio_base64"] = options["audio"].chars
                   ELSE Base64Decode(p["audio_base64"])
                            = options["audio"].bytes

\* C33 witness: a call with the bytes of "fo" as its audio and a
\* providerOptions.runpod.audio that is no string submitted the base64 text
\* Zm8= and no audio.
C33_Witness ==
    /\ model.modality = "transcription"
    /\ lastRequest.kind = "submit"
    /\ Has(options, "audio")
    /\ options["audio"] = BytesAudio(<<102, 111>>)
    /\ Has(options["runpod"], "audio")
    /\ lastRequest.input["audio_base64"] = <<"Z", "m", "8", "=">>
    /\ ~Has(lastRequest.input, "audio")

-----------------------------------------------------------------------------
(* C34: the waits of the polling loop *)

\* C34 as stated: the first status request of a call follows the submission
\* with no wait before it, one wait of the poll interval lies between two
\* consecutive status requests, and no wait starts once a status response
\* has carried COMPLETED or FAILED.
C34_Original ==
    [][ /\ statusCount' > statusCount =>
              /\ statusCount' = statusCount + 1
              /\ waitCount = statusCount
              /\ statusCount = 0 => pc = "submitting"
        /\ waitCount' > waitCount =>
              /\ waitCount' = waitCount + 1
              /\ waitCount' = statusCount
              /\ pc = "polling"
              /\ pollInterval = PolicyPollInterval(model.modality, options)
              /\ ~terminalSeen'
      ]_vars

-----------------------------------------------------------------------------
(* C35: the text and the segments of a transcription *)

\* a transcription call returned after this COMPLETED status response
TranscriptionCompleted ==
    /\ model.modality = "transcription"
    /\ pc = "done"
    /\ lastResponse.kind = "status"
    /\ lastResponse.status = "COMPLETED"

\* C35: a transcription call whose job is COMPLETED returns a result; its
\* text is output.text when present, else output.result, else ''; its
\* segments are those of the output in their order, each with its text,
\* start and end as text, startSecond and endSecond, '' and 0 standing for
\* a missing member; without an output the text is '' and there are no
\* segments.
C35_TextAndSegments ==
    TranscriptionCompleted =>
        LET out == lastResponse.output
            member(k) == IF out.t = "object" THEN out.f[k] ELSE JUndefined
            segs == IF out.t = "object" /\ Has(out.f, "segments")
                    THEN out.f["segments"] ELSE <<>>
        IN  /\ outcome.kind = "success"
            /\ outcome.value
                  = (IF member("text").t = "string" THEN member("text").s
                     ELSE IF member("result").t = "string"
                     THEN member("result").s
                     ELSE "")
            /\ Len(outcome.segments) = Len(segs)
            /\ \A i \in 1..Len(segs) :
                  /\ DOMAIN outcome.segments[i]
                        = {"text", "startSecond", "endSecond"}
                  /\ outcome.segments[i].text
                        = (IF segs[i].text.t = "string" THEN segs[i].text.s
                           ELSE "")
                  /\ outcome.segments[i].startSecond
                        = (IF segs[i].start.t = "number" THEN segs[i].start.n
                           ELSE 0)
                  /\ outcome.segments[i].endSecond
                        = (IF segs[i].end.t = "number" THEN segs[i].end.n
                           ELSE 0)
            /\ out.t = "undefined" =>
                  outcome.value = "" /\ outcome.segments = <<>>

\* C35 witness: a COMPLETED job whose output has three segments, the last
\* without text and start, and neither text nor result returned the text ''
\* and the segment {text: '', startSecond: 0, endSecond: 5}.
C35_Witness ==
    /\ TranscriptionCompleted
    /\ outcome.kind = "success"
    /\ Len(outcome.segments) = 3
    /\ outcome.segments[3] = [text |-> "", startSecond |-> 0, endSecond |-> 5]
    /\ outcome.value = ""

-----------------------------------------------------------------------------
(* C36: every call ends *)

\* the steps of the call itself and the answers to its requests; the abort
\* of the caller is no step anyone has to take
Progress ==
    \/ DoGenerate
    \/ SubmitResponse
    \/ RequestFailure
    \/ RequestAborted
    \/ StatusResponse
    \/ WaitElapsed
    \/ DownloadResponse

\* the calls whose end is explored: every poll policy in every polling
\* modality, speech, and the sizes the image model accepts and rejects
LiveCalls ==
    DeepCalls \cup SpeechCalls
        \cup {c \in SizeCalls : c.model.modelId = "qwen/qwen-image"}

LInit == Init /\ \E c \in LiveCalls : model = c.model /\ options = c.options

\* one doGenerate call whose requests are all answered and whose timers all
\* fire
SpecLive == LInit /\ [][Next]_vars /\ WF_vars(Progress)

\* the ways a call ends
Succeeded == outcome.kind = "success"
JobFailed ==
    /\ outcome.kind = "error"
    /\ model.modality # "speech"
    /\ outcome.message
          \in {FailedMessage(model.modality, e) : e \in ErrorFields}
TimedOut ==
    /\ outcome.kind = "error"
    /\ model.modality # "speech"
    /\ outcome.message
          = TimeoutMessage(model.modality, maxAttempts, pollInterval)
WasCancelled ==
    /\ outcome.kind = "error"
    /\ aborted
    /\ outcome.message \in {"Image generation was aborted",
                            "Video generation was aborted",
                            "Transcription was aborted",
                            "This operation was aborted"}
Propagated ==
    /\ outcome.kind = "error"
    /\ outcome.name \in {"InvalidArgumentError", "APICallError", "Error"}

\* C36: when every request is answered, every call reaches an end, which is
\* a result, a failed job, a timeout, a cancellation or a propagated error,
\* whatever maxAttempts is, 0 included; once ended it keeps its outcome and
\* issues no request.
C36_Terminates ==
    /\ <>[](/\ pc = "done"
            /\ Succeeded \/ JobFailed \/ TimedOut \/ WasCancelled \/ Propagated)
    /\ [][pc = "done" =>
            /\ pc' = "done"
            /\ outcome' = outcome
            /\ RequestCount' = RequestCount]_vars
    /\ [](pc # "done" => outcome = Pending)

\* C36 witness: a call with maxPollAttempts 0 ended with a timeout, its
\* submission being its only request.
C36_Witness ==
    /\ pc = "done"
    /\ Has(RunpodOptions(options), "maxPollAttempts")
    /\ RunpodOptions(options)["maxPollAttempts"] = 0
    /\ model.modality \in {"video", "transcription"}
    /\ TimedOut
    /\ RequestCount = 1

-----------------------------------------------------------------------------
(* C37: statuses that are neither COMPLETED nor FAILED *)

\* a status response with a status that is neither COMPLETED nor FAILED is
\* delivered to a video or transcription call by this step
OtherStatusDelivered ==
    /\ model.modality \in {"video", "transcription"}
    /\ pc = "polling"
    /\ lastResponse'.kind = "status"
    /\ lastResponse'.status \notin {"COMPLETED", "FAILED", ""}
    /\ aborted' = aborted
    /\ outcome'.name # "AbortError"

\* C37: a video or transcription call that is answered a status other than
\* COMPLETED and FAILED, CANCELLED for one, goes to its wait and has no
\* outcome yet; the wait is followed by the next status request or, once
\* maxAttempts status requests have been issued, by the timeout of the call,
\* unless the abort is seen first.
C37_OtherStatusWaits ==
    [][ /\ OtherStatusDelivered =>
              /\ pc' = "waiting"
              /\ waitCount' = waitCount + 1
              /\ outcome' = Pending
        /\ (/\ model.modality \in {"video", "transcription"}
            /\ pc = "waiting"
            /\ lastResponse.status \notin {"COMPLETED", "FAILED"}) =>
              \/ /\ pc' = "polling"
                 /\ statusCount' = statusCount + 1
                 /\ statusCount' <= maxAttempts
              \/ /\ pc' = "done"
                 /\ outcome' = Failure("Error", AbortedMessage(model.modality))
                 /\ aborted
              \/ /\ pc' = "done"
                 /\ statusCount = maxAttempts
                 /\ outcome'.kind = "error"
                 /\ outcome'.message
                       = TimeoutMessage(model.modality, maxAttempts,
                                        pollInterval)
              \/ pc' = "waiting" /\ outcome' = outcome
      ]_vars

\* C37 witness: a video call whose two status requests were both answered
\* CANCELLED ended with the timeout after 2 attempts.
C37_Witness ==
    /\ model.modality = "video"
    /\ pc = "done"
    /\ lastResponse.kind = "status"
    /\ lastResponse.status = "CANCELLED"
    /\ maxAttempts = 2
    /\ statusCount = 2
    /\ waitCount = 2
    /\ outcome.kind = "error"
    /\ outcome.message = TimeoutMessage("video", 2, pollInterval)

-----------------------------------------------------------------------------
(* C38: the size rule of doGenerate and the branch of buildInputPayload *)

\* the families whose rule a model id matches: the texts it contains
FamiliesOf(id) ==
    {f \in {"flux", "pruna", "nano-banana-pro", "qwen-image-edit-2511",
            "wan-2"} :
        \/ Includes(id, f)
        \/ f = "flux" /\ Includes(id, "black-forest-labs")
        \/ f = "pruna" /\ Includes(id, "p-image")}

\* C38 as stated: an image model id matches the rule of one family at most,
\* and the payload of a Flux id (one that contains flux or
\* black-forest-labs) is built from a size W*H, never from an aspect ratio:
\* Kontext carries the size W*H, regular Flux a width and a height that are
\* numbers.
C38_Original ==
    (model.modality = "image" /\ lastRequest.kind = "submit") =>
        /\ Cardinality(FamiliesOf(model.modelId)) <= 1
        /\ "flux" \in FamiliesOf(model.modelId) =>
              LET p == lastRequest.input
              IN  IF Includes(model.modelId, "kontext")
                  THEN /\ Has(p, "size")
                       /\ Len(p["size"]) = 3
                       /\ p["size"][2] = "*"
                  ELSE /\ Has(p, "width") /\ p["width"] # NaN
                       /\ Has(p, "height") /\ p["height"] # NaN

-----------------------------------------------------------------------------
(* C39: per-call headers on the submission, configured headers on the polls *)

\* the headers object of the call, empty when the call gives none
PerCallHeaders == Get(options, "headers", EmptyObject)

\* a key the call gives a value that differs from the configured one
HeaderConflict ==
    \E k \in DOMAIN PerCallHeaders \cap DOMAIN model.headers :
        /\ PerCallHeaders[k] # JUndefined
        /\ PerCallHeaders[k] # model.headers[k]

\* C39: the headers of the submission request are the configured headers
\* with the headers of the call merged over them: a key the call gives a
\* value carries that value, every other configured key carries the
\* configured value, and no further key is sent but the Content-Type of the
\* speech request; a status request carries exactly the configured headers,
\* whatever the call passes.
C39_HeadersMerged ==
    /\ lastRequest.kind = "submit" =>
        LET sent == lastRequest.headers
        IN  /\ \A k \in DOMAIN PerCallHeaders :
                PerCallHeaders[k] # JUndefined =>
                    Has(sent, k) /\ sent[k] = PerCallHeaders[k]
            /\ \A k \in DOMAIN model.headers \ DOMAIN PerCallHeaders :
                Has(sent, k) /\ sent[k] = model.headers[k]
            /\ DOMAIN sent \subseteq
                   DOMAIN model.headers \cup DOMAIN PerCallHeaders
                       \cup (IF model.modality = "speech"
                             THEN {"Content-Type"} ELSE {})
    /\ lastRequest.kind = "status" => lastRequest.headers = model.headers

\* C39 witness: a status request of a call whose headers replace a configured
\* header and add a new one has been issued after its submission.
C39_Witness ==
    /\ lastRequest.kind = "status"
    /\ submitCount = 1
    /\ statusCount = 2
    /\ HeaderConflict
    /\ lastRequest.headers # SubmitHeaders(model, options)

====
